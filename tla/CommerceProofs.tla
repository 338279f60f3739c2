--------------------------- MODULE CommerceProofs ---------------------------
(***************************************************************************)
(* What the checkout and the webhook guarantee for every number of         *)
(* students, plans, requests, events and sessions, and for every clock; and *)
(* that no number of concurrent requests, crashes and changes of plan takes *)
(* more metered units than the limit each was reserved under.              *)
(***************************************************************************)
EXTENDS Billing, Metering, TLAPS, FiniteSetTheorems

-----------------------------------------------------------------------------
(* The inductive invariant: what each request has done when it has reached *)
(* a statement, and how rows, sessions and events refer to one another.    *)

\* Every statement of a request runs on what the ones before it wrote.
RequestsOK ==
  \A r \in Requests :
    LET c == checkouts[r] IN
    /\ c.pc \in InFlight \cup {"done"} =>
         c.student \in Students /\ c.plan \in Plans /\ c.amount \in Amounts
    /\ c.pc = "idle" => c.tries = 0
    /\ c.pc \in {"insert", "find"} => c.tries < 3
    /\ c.pc \in {"create", "attach", "done"} => c.sub \in SubIds /\ subs[c.sub] # None
    /\ c.pc \in {"attach", "done"} =>
         c.ref \in Refs /\ sessions[c.ref] # None /\ sessions[c.ref].sub = c.sub
    /\ c.pc = "done" => subs[c.sub].ref = c.ref

\* A session was opened for an existing row, at its amount; a row's reference is
\* a session opened for it.
SessionsOK ==
  /\ \A f \in Refs : sessions[f] # None =>
       subs[sessions[f].sub] # None /\ sessions[f].amount = subs[sessions[f].sub].amount
  /\ \A s \in SubIds : subs[s] # None /\ subs[s].ref # None =>
       sessions[subs[s].ref] # None /\ sessions[subs[s].ref].sub = s

\* An emitted event is about a session; a payment is about an attached one.
WireOK ==
  \A e \in EventIds : wire[e] # None =>
    /\ sessions[wire[e].ref] # None
    /\ wire[e].type = "payment_succeeded" =>
         subs[sessions[wire[e].ref].sub].ref = wire[e].ref

\* A recorded event was emitted, and names the row its reference maps to.
EventsOK ==
  \A e \in EventIds : events[e] # None =>
    /\ wire[e] # None
    /\ events[e].type = wire[e].type
    /\ events[e].sub # None => subs[events[e].sub] # None
    /\ events[e].sub = None <=> events[e].outcome = "ignored_unknown_reference"
    /\ events[e].type = "payment_succeeded" => events[e].sub = sessions[wire[e].ref].sub

\* A row that waits for its first payment has seen no event at all, so no payment
\* is ever stale for it; a live one has been paid.
RowOK(row) ==
  /\ row.status = "pending" => row.paidThrough = Never /\ row.lastEventAt = Never
  /\ row.status \in {"active", "past_due"} => row.paidThrough # Never

\* Every row, at any time.
RowsOK ==
  \A s \in SubIds : subs[s] # None => RowOK(subs[s])

\* A refund is only undone by a delivery that writes over it.
RefundsOK ==
  \A e \in EventIds :
    /\ events[e] # None
    /\ events[e].type = "payment_refunded"
    /\ events[e].outcome \in {"applied", "ignored_terminal"}
    /\ events[e].sub \notin overwritten
    => subs[events[e].sub].status = "refunded"

OneOpen ==
  \A s, t \in SubIds :
    /\ subs[s] # None /\ subs[t] # None
    /\ subs[s].status = "pending" /\ subs[t].status = "pending"
    /\ subs[s].student = subs[t].student /\ subs[s].plan = subs[t].plan
    => s = t

\* What an unlocked delivery of e has read was once a row, and what it will write is the
\* answer to an event that is no payment.  A row it has read as refunded is refunded still,
\* and one that still waits for its payment is as it was read.
DeliveryOK(e) ==
  LET d == unlocked[e]
      s == d.sub
  IN
  /\ wire[e] # None
  /\ wire[e].type # "payment_succeeded"
  /\ s = None => d.outcome \in {"unread", "ignored_unknown_reference"}
  /\ s # None =>
       /\ subs[s] # None /\ subs[s].ref = wire[e].ref
       /\ d.row \in Rows /\ RowOK(d.row)
       /\ \E days \in Nat :
            /\ d.outcome = Outcome(s, d.row, wire[e], days)
            /\ d.outcome = "applied" => d.next = Applied(d.row, wire[e], days)
       /\ subs[s].status = "pending" => subs[s] = d.row
       /\ d.row.status = "refunded" /\ s \notin overwritten => subs[s].status = "refunded"

DeliveriesOK == \A e \in EventIds : unlocked[e] # None => DeliveryOK(e)

Inv ==
  /\ TypeOK /\ RequestsOK /\ SessionsOK /\ WireOK /\ EventsOK /\ RowsOK /\ RefundsOK /\ OneOpen
  /\ DeliveriesOK

\* A delivery knows nothing of requests, sessions, records, prices or the clock.
LEMMA DeliveriesStand ==
  ASSUME DeliveriesOK, UNCHANGED <<subs, wire, unlocked, overwritten>>
  PROVE  DeliveriesOK'
  BY DEF DeliveriesOK, DeliveryOK

\* What a delivery knows stays true of a row that keeps its reference, leaves `pending` for
\* good, and stays refunded unless it is overwritten.
LEMMA DeliveriesKept ==
  ASSUME Inv, overwritten \subseteq overwritten',
         \A x \in EventIds : wire[x] # None => wire'[x] = wire[x],
         \A s \in SubIds : subs[s] # None /\ subs[s].ref # None =>
           \/ subs'[s] = subs[s]
           \/ /\ subs'[s] # None /\ subs'[s].ref = subs[s].ref /\ subs'[s].status # "pending"
              /\ subs[s].status = "refunded" /\ s \notin overwritten' =>
                   subs'[s].status = "refunded",
         NEW e \in EventIds, unlocked[e] # None, unlocked'[e] = unlocked[e]
  PROVE  DeliveryOK(e)'
  <1> DEFINE d == unlocked[e]
             s == d.sub
  <1>1. DeliveryOK(e) /\ d \in Deliveries /\ wire'[e] = wire[e]
    BY DEF Inv, DeliveriesOK, DeliveryOK, TypeOK
  <1>2. CASE s = None
    BY <1>1, <1>2 DEF DeliveryOK
  <1>3. CASE s # None
    <2>1. /\ s \in SubIds /\ subs[s] # None /\ subs[s].ref = wire[e].ref
          /\ wire[e] \in ProviderEvents
      BY <1>1, <1>3 DEF DeliveryOK, Deliveries, Inv, TypeOK
    <2>2. subs[s].ref # None
      BY <2>1, NoneAssumption DEF ProviderEvents
    <2>3. /\ subs'[s] # None /\ subs'[s].ref = subs[s].ref
          /\ subs'[s] = subs[s] \/ subs'[s].status # "pending"
          /\ subs[s].status = "refunded" /\ s \notin overwritten' => subs'[s].status = "refunded"
      BY <2>1, <2>2
    <2> HIDE DEF s
    <2>4. QED
      BY <1>1, <1>3, <2>1, <2>3 DEF DeliveryOK, s
  <1>4. QED
    BY <1>2, <1>3

-----------------------------------------------------------------------------
(* The transition function on one row.                                     *)

\* An applied event leaves a well-typed row.
LEMMA AppliedType ==
  ASSUME NEW row \in Rows, NEW ev \in ProviderEvents, NEW days \in Nat
  PROVE  /\ Applied(row, ev, days) \in Rows
         /\ Applied(row, ev, days).student = row.student
         /\ Applied(row, ev, days).plan = row.plan
         /\ Applied(row, ev, days).amount = row.amount
         /\ Applied(row, ev, days).ref = row.ref
         /\ Applied(row, ev, days).status = NextStatus(row, ev)
         /\ Applied(row, ev, days).paidThrough = NextPaidThrough(row, ev, days)
         /\ Applied(row, ev, days).lastEventAt = Later(row.lastEventAt, ev.at)
  <1>1. NextStatus(row, ev) \in Statuses
    BY DEF NextStatus, Rows, Statuses, ProviderEvents, EventTypes
  <1>2. NextPaidThrough(row, ev, days) \in Nat \cup {Never}
    BY DEF NextPaidThrough, Later, Rows, ProviderEvents, Never
  <1>3. Later(row.lastEventAt, ev.at) \in Nat \cup {Never}
    BY DEF Later, Rows, ProviderEvents, Never
  <1>4. QED
    BY <1>1, <1>2, <1>3 DEF Applied, Rows

LEMMA OutcomeType ==
  ASSUME NEW s, NEW row, NEW ev, NEW days
  PROVE  /\ Outcome(s, row, ev, days) \in Outcomes
         /\ Outcome(s, row, ev, days) # "ignored_unknown_reference"
  BY DEF Outcome, Outcomes

\* An applied event leaves a row whose status and paid period agree; only a row
\* that was waiting for its payment is waiting after it.
LEMMA AppliedRow ==
  ASSUME NEW s, NEW row \in Rows, NEW ev \in ProviderEvents, NEW days \in Nat,
         Outcome(s, row, ev, days) = "applied",
         RowOK(row)
  PROVE  /\ NextStatus(row, ev) # "pending"
         /\ NextStatus(row, ev) \in {"active", "past_due"} =>
              NextPaidThrough(row, ev, days) # Never
         /\ row.status # "refunded"
         /\ ev.type = "payment_refunded" => NextStatus(row, ev) = "refunded"
         /\ ev.type = "payment_succeeded" => days # 0
  BY DEF RowOK, Outcome, NextStatus, NextPaidThrough, Later, Final, Stale, Movable, Terminal,
         Rows, ProviderEvents, EventTypes, Statuses, Never

-----------------------------------------------------------------------------
(* One lemma per group of actions: the invariant is preserved.             *)

LEMMA StartCheckoutInv ==
  ASSUME Inv, NEW r \in Requests, NEW st \in Students, NEW p \in Plans, StartCheckout(r, st, p)
  PROVE  Inv'
  <1> DEFINE d(pc) == [checkouts[r] EXCEPT !.pc = pc, !.student = st, !.plan = p,
                                           !.amount = catalog[p]]
  <1>a. PICK pc \in {"refused", "insert"} : checkouts' = [checkouts EXCEPT ![r] = d(pc)]
    <2>1. checkouts' = [checkouts EXCEPT ![r] = d(IF Holds(st, p) THEN "refused" ELSE "insert")]
      BY DEF StartCheckout
    <2>2. CASE Holds(st, p)
      BY <2>1, <2>2
    <2>3. CASE ~Holds(st, p)
      BY <2>1, <2>3
    <2>4. QED
      BY <2>2, <2>3
  <1> DEFINE c == d(pc)
  <1>b. checkouts[r] \in Checkouts /\ catalog[p] \in Amounts /\ checkouts[r].tries = 0
    BY DEF StartCheckout, Inv, TypeOK, RequestsOK
  <1>1. /\ c \in Checkouts /\ c.pc \in {"refused", "insert"} /\ c.tries = 0
        /\ c.student \in Students /\ c.plan \in Plans /\ c.amount \in Amounts
        /\ checkouts' = [checkouts EXCEPT ![r] = c]
    BY <1>a, <1>b DEF Checkouts, InFlight
  <1> HIDE DEF c, d
  <1>2. checkouts \in [Requests -> Checkouts] /\ checkouts' \in [Requests -> Checkouts]
    BY <1>1 DEF Inv, TypeOK
  <1>3. TypeOK'
    BY <1>2 DEF StartCheckout, Inv, TypeOK
  <1>4. RequestsOK'
    <2> SUFFICES ASSUME NEW q \in Requests PROVE RequestsOK!(q)'
      BY DEF RequestsOK
    <2>1. CASE q = r
      BY <1>1, <1>2, <2>1 DEF InFlight
    <2>2. CASE q # r
      <3>1. checkouts'[q] = checkouts[q]
        BY <1>1, <1>2, <2>2
      <3>2. QED
        BY <3>1 DEF StartCheckout, Inv, RequestsOK
    <2>3. QED
      BY <2>1, <2>2
  <1>5. QED
    BY <1>3, <1>4, DeliveriesStand DEF StartCheckout, Inv, SessionsOK, WireOK, EventsOK, RowsOK, RefundsOK, OneOpen

LEMMA InsertPendingInv ==
  ASSUME Inv, NEW r \in Requests, InsertPending(r)
  PROVE  Inv'
  <1> DEFINE c == checkouts[r]
  <1>0. /\ c \in Checkouts /\ c.pc = "insert" /\ c.tries < 3
        /\ c.student \in Students /\ c.plan \in Plans /\ c.amount \in Amounts
    BY DEF InsertPending, Inv, TypeOK, RequestsOK, InFlight
  <1>1. CASE /\ Pending(c.student, c.plan) # {}
             /\ checkouts' = [checkouts EXCEPT ![r].pc = "find"]
             /\ UNCHANGED subs
    <2>1. TypeOK'
      BY <1>0, <1>1 DEF InsertPending, Inv, TypeOK, Checkouts, InFlight
    <2>2. RequestsOK'
      BY <1>0, <1>1 DEF InsertPending, Inv, TypeOK, RequestsOK, InFlight, Checkouts
    <2>3. QED
      BY <1>1, <2>1, <2>2, DeliveriesStand DEF InsertPending, Inv, SessionsOK, WireOK, EventsOK, RowsOK, RefundsOK, OneOpen
  <1>2. ASSUME NEW s \in SubIds, subs[s] = None, Pending(c.student, c.plan) = {},
               subs' = [subs EXCEPT ![s] =
                  [student |-> c.student, plan |-> c.plan, amount |-> c.amount,
                   ref |-> None, status |-> "pending",
                   paidThrough |-> Never, lastEventAt |-> Never]],
               checkouts' = [checkouts EXCEPT ![r].pc = "create", ![r].sub = s]
        PROVE  Inv'
    <2> DEFINE row == [student |-> c.student, plan |-> c.plan, amount |-> c.amount,
                       ref |-> None, status |-> "pending",
                       paidThrough |-> Never, lastEventAt |-> Never]
    <2>1. row \in Rows /\ row # None
      BY <1>0, NoneAssumption DEF Rows, Statuses
    <2>2. /\ subs' = [subs EXCEPT ![s] = row]
          /\ checkouts' = [checkouts EXCEPT ![r].pc = "create", ![r].sub = s]
          /\ UNCHANGED <<now, catalog, events, sessions, wire, unlocked, overwritten>>
      BY <1>2 DEF InsertPending
    <2>3. /\ row.ref = None /\ row.status = "pending" /\ row.paidThrough = Never
          /\ row.lastEventAt = Never /\ row.student = c.student /\ row.plan = c.plan
      OBVIOUS
    <2> HIDE DEF row
    <2>4. TypeOK'
      <3>1. checkouts' \in [Requests -> Checkouts]
        BY <1>0, <2>2 DEF Inv, TypeOK, Checkouts, InFlight
      <3>2. subs' \in [SubIds -> Rows \cup {None}]
        BY <2>1, <2>2 DEF Inv, TypeOK
      <3>3. QED
        BY <2>2, <3>1, <3>2 DEF Inv, TypeOK
    <2>5. RequestsOK'
      BY <1>0, <1>2, <2>1, <2>2 DEF Inv, TypeOK, RequestsOK, InFlight, Checkouts
    <2>6. SessionsOK' /\ WireOK' /\ EventsOK'
      BY <1>2, <2>1, <2>2, <2>3, NoneAssumption
      DEF Inv, TypeOK, SessionsOK, WireOK, EventsOK, Sessions, ProviderEvents, EventRows
    <2>7. RowsOK' /\ RefundsOK'
      BY <1>2, <2>1, <2>2, <2>3 DEF Inv, TypeOK, RowsOK, RowOK, RefundsOK, EventsOK, EventRows
    <2>8. OneOpen'
      BY <1>2, <2>1, <2>2, <2>3 DEF Inv, TypeOK, OneOpen, Pending, Of
    <2>9. DeliveriesOK'
      <3>1. \A t \in SubIds : subs[t] # None => subs'[t] = subs[t]
        BY <1>2, <2>2 DEF Inv, TypeOK
      <3>2. QED
        BY <2>2, <3>1, DeliveriesKept DEF DeliveriesOK
    <2>10. QED
      BY <2>4, <2>5, <2>6, <2>7, <2>8, <2>9 DEF Inv
  <1>3. QED
    BY <1>1, <1>2 DEF InsertPending

LEMMA FindPendingInv ==
  ASSUME Inv, NEW r \in Requests, FindPending(r)
  PROVE  Inv'
  <1>1. TypeOK'
    BY DEF FindPending, Inv, TypeOK, RequestsOK, Checkouts, InFlight, Pending, Of
  <1>2. RequestsOK'
    BY DEF FindPending, Inv, TypeOK, RequestsOK, Checkouts, InFlight, Pending, Of
  <1>3. QED
    BY <1>1, <1>2, DeliveriesStand DEF FindPending, Inv, SessionsOK, WireOK, EventsOK, RowsOK, RefundsOK, OneOpen

LEMMA CreateSessionInv ==
  ASSUME Inv, NEW r \in Requests, CreateSession(r)
  PROVE  Inv'
  <1> DEFINE c == checkouts[r]
  <1>0. /\ c \in Checkouts /\ c.pc = "create" /\ c.sub \in SubIds /\ subs[c.sub] \in Rows
        /\ subs[c.sub] # None
        /\ c.student \in Students /\ c.plan \in Plans /\ c.amount \in Amounts
    BY DEF CreateSession, Inv, TypeOK, RequestsOK, InFlight
  <1> DEFINE order == [sub |-> c.sub, amount |-> subs[c.sub].amount]
  <1>1. order \in Sessions /\ order # None /\ order.sub = c.sub
        /\ order.amount = subs[c.sub].amount
    BY <1>0, NoneAssumption DEF Sessions, Rows
  <1>2. PICK f \in Refs :
          /\ \/ sessions[f] # None /\ sessions[f].sub = c.sub /\ UNCHANGED sessions
             \/ sessions[f] = None /\ sessions' = [sessions EXCEPT ![f] = order]
          /\ checkouts' = [checkouts EXCEPT ![r].pc = "attach", ![r].ref = f]
          /\ UNCHANGED <<now, catalog, subs, events, wire, unlocked, overwritten>>
    BY DEF CreateSession
  <1> HIDE DEF order
  <1>3. TypeOK'
    BY <1>0, <1>1, <1>2 DEF Inv, TypeOK, Checkouts, InFlight
  <1>4. /\ sessions'[f] # None /\ sessions'[f].sub = c.sub
        /\ \A g \in Refs : sessions[g] # None => sessions'[g] = sessions[g]
        /\ \A g \in Refs : g # f => sessions'[g] = sessions[g]
        /\ sessions[f] = None => sessions'[f] = order
    BY <1>1, <1>2 DEF Inv, TypeOK
  <1>5. RequestsOK'
    BY <1>0, <1>2, <1>4 DEF Inv, TypeOK, RequestsOK, InFlight, Checkouts
  <1>6. SessionsOK'
    BY <1>0, <1>1, <1>2, <1>4 DEF Inv, TypeOK, SessionsOK, Rows
  <1>7. WireOK' /\ EventsOK'
    BY <1>2, <1>4 DEF Inv, TypeOK, WireOK, EventsOK, ProviderEvents
  <1>8. QED
    BY <1>2, <1>3, <1>5, <1>6, <1>7, DeliveriesStand DEF Inv, RowsOK, RefundsOK, OneOpen

LEMMA AttachInv ==
  ASSUME Inv, NEW r \in Requests, Attach(r)
  PROVE  Inv'
  <1> DEFINE c == checkouts[r]
             free == subs[c.sub].ref = None /\ Mapped(c.ref) = {}
  <1>0. /\ c \in Checkouts /\ c.pc = "attach" /\ c.sub \in SubIds /\ subs[c.sub] \in Rows
        /\ subs[c.sub] # None /\ c.ref \in Refs /\ sessions[c.ref] # None
        /\ sessions[c.ref].sub = c.sub
        /\ c.student \in Students /\ c.plan \in Plans /\ c.amount \in Amounts
    BY DEF Attach, Inv, TypeOK, RequestsOK, InFlight
  <1>1. CASE ~free
    <2>1. UNCHANGED <<now, catalog, subs, events, sessions, wire, unlocked, overwritten>>
      BY <1>1 DEF Attach
    <2>2. TypeOK'
      BY <1>0, <1>1, <2>1 DEF Attach, Inv, TypeOK, Checkouts, InFlight
    <2>3. RequestsOK'
      BY <1>0, <1>1, <2>1 DEF Attach, Inv, TypeOK, RequestsOK, Checkouts, InFlight
    <2>4. QED
      BY <2>1, <2>2, <2>3, DeliveriesStand DEF Inv, SessionsOK, WireOK, EventsOK, RowsOK, RefundsOK, OneOpen
  <1>2. CASE free
    <2> DEFINE row == [subs[c.sub] EXCEPT !.ref = c.ref]
    <2>1. /\ row \in Rows /\ row # None /\ row.ref = c.ref /\ row.status = subs[c.sub].status
          /\ row.student = subs[c.sub].student /\ row.plan = subs[c.sub].plan
          /\ row.amount = subs[c.sub].amount /\ row.paidThrough = subs[c.sub].paidThrough
          /\ row.lastEventAt = subs[c.sub].lastEventAt
      BY <1>0, NoneAssumption DEF Rows
    <2>2. /\ subs' = [subs EXCEPT ![c.sub] = row]
          /\ checkouts' = [checkouts EXCEPT ![r].pc = "done"]
          /\ UNCHANGED <<now, catalog, events, sessions, wire, unlocked, overwritten>>
      BY <1>2 DEF Attach
    <2> HIDE DEF row
    <2>3. TypeOK'
      BY <1>0, <2>1, <2>2 DEF Inv, TypeOK, Checkouts, InFlight
    <2>4. RequestsOK'
      BY <1>0, <1>2, <2>1, <2>2, NoneAssumption DEF Inv, TypeOK, RequestsOK, Checkouts, InFlight
    <2>5. SessionsOK'
      BY <1>0, <2>1, <2>2 DEF Inv, TypeOK, SessionsOK, Sessions
    <2>6. WireOK' /\ EventsOK'
      BY <1>0, <1>2, <2>1, <2>2, NoneAssumption
      DEF Inv, TypeOK, WireOK, EventsOK, ProviderEvents, EventRows, Sessions
    <2>7. RowsOK' /\ RefundsOK' /\ OneOpen'
      BY <1>0, <2>1, <2>2 DEF Inv, TypeOK, RowsOK, RowOK, RefundsOK, OneOpen, EventRows, EventsOK
    <2>8. DeliveriesOK'
      <3>1. \A t \in SubIds : subs[t] # None /\ subs[t].ref # None => subs'[t] = subs[t]
        BY <1>0, <1>2, <2>2 DEF Inv, TypeOK
      <3>2. QED
        BY <2>2, <3>1, DeliveriesKept DEF DeliveriesOK
    <2>9. QED
      BY <2>3, <2>4, <2>5, <2>6, <2>7, <2>8 DEF Inv
  <1>3. QED
    BY <1>1, <1>2

LEMMA AbandonInv ==
  ASSUME Inv, NEW r \in Requests, Abandon(r)
  PROVE  Inv'
  <1>1. TypeOK'
    BY DEF Abandon, Inv, TypeOK, Checkouts, InFlight
  <1>2. RequestsOK'
    BY DEF Abandon, Inv, TypeOK, RequestsOK, Checkouts, InFlight
  <1>3. QED
    BY <1>1, <1>2, DeliveriesStand DEF Abandon, Inv, SessionsOK, WireOK, EventsOK, RowsOK, RefundsOK, OneOpen

\* The provider emits a new event about a session it has.
LEMMA EmitInv ==
  ASSUME Inv, NEW e \in EventIds, NEW ev \in ProviderEvents,
         wire[e] = None, wire' = [wire EXCEPT ![e] = ev], sessions[ev.ref] # None,
         ev.type = "payment_succeeded" => subs[sessions[ev.ref].sub].ref = ev.ref,
         UNCHANGED <<now, catalog, subs, events, checkouts, sessions, unlocked, overwritten>>
  PROVE  Inv'
  <1>0. ev # None
    BY NoneAssumption
  <1>1. TypeOK'
    BY DEF Inv, TypeOK
  <1>2. WireOK'
    BY DEF Inv, TypeOK, WireOK
  <1>3. EventsOK'
    BY <1>0 DEF Inv, TypeOK, EventsOK
  <1>4. DeliveriesOK'
    <2>1. \A x \in EventIds : wire[x] # None => wire'[x] = wire[x]
      BY DEF Inv, TypeOK
    <2>2. QED
      BY <2>1, DeliveriesKept DEF DeliveriesOK
  <1>5. QED
    BY <1>1, <1>2, <1>3, <1>4 DEF Inv, RequestsOK, SessionsOK, RowsOK, RefundsOK, OneOpen

LEMMA PaysInv ==
  ASSUME Inv, NEW e \in EventIds, NEW f \in Refs, NEW amount \in Amounts, NEW echo \in Echoed,
         Pays(e, f, amount, echo)
  PROVE  Inv'
  <1> DEFINE ev == [type |-> "payment_succeeded", at |-> now, ref |-> f,
                    amount |-> amount, echo |-> echo]
  <1>1. ev \in ProviderEvents /\ ev.ref = f
    BY DEF ProviderEvents, EventTypes, Inv, TypeOK
  <1>2. sessions[f] # None /\ subs[sessions[f].sub].ref = f
    BY DEF Pays, Issued, Inv, RequestsOK
  <1>3. wire[e] = None /\ wire' = [wire EXCEPT ![e] = ev]
        /\ UNCHANGED <<now, catalog, subs, events, checkouts, sessions, unlocked, overwritten>>
    BY DEF Pays
  <1> HIDE DEF ev
  <1>4. QED
    BY <1>1, <1>2, <1>3, EmitInv

LEMMA ReportsInv ==
  ASSUME Inv, NEW e \in EventIds, NEW f \in Refs, NEW echo \in Echoed,
         NEW type \in EventTypes \ {"payment_succeeded"}, Reports(e, type, f, echo)
  PROVE  Inv'
  <1> DEFINE ev == [type |-> type, at |-> now, ref |-> f, amount |-> sessions[f].amount,
                    echo |-> echo]
  <1>1. sessions[f] # None /\ sessions[f].amount \in Amounts
    BY DEF Reports, Inv, TypeOK, Sessions
  <1>2. ev \in ProviderEvents /\ ev.ref = f /\ ev.type # "payment_succeeded"
    BY <1>1 DEF ProviderEvents, Inv, TypeOK
  <1>3. wire[e] = None /\ wire' = [wire EXCEPT ![e] = ev]
        /\ UNCHANGED <<now, catalog, subs, events, checkouts, sessions, unlocked, overwritten>>
    BY DEF Reports
  <1> HIDE DEF ev
  <1>4. QED
    BY <1>1, <1>2, <1>3, EmitInv

LEMMA PlanDaysType ==
  ASSUME NEW p \in Plans
  PROVE  /\ PlanDays(p) \in Nat
         /\ PlanDays(p) # 0 => PlanDays(p) = Days[p]
  BY DaysAssumption DEF PlanDays

\* What a delivery under the lock does: an event about a row, with the outcome decided
\* on that row.
Processed(e, rec) ==
  /\ wire[e] # None /\ events[e] = None
  /\ events' = [events EXCEPT ![e] = rec]
  /\ rec.type = wire[e].type /\ rec.at = wire[e].at
  /\ UNCHANGED <<now, catalog, checkouts, sessions, wire, unlocked, overwritten>>
  /\ rec.sub \in Mapped(wire[e].ref)
  /\ rec.outcome = Outcome(rec.sub, subs[rec.sub], wire[e], PlanDays(subs[rec.sub].plan))
  /\ rec.outcome # "ignored_unknown_reference"
  /\ rec.outcome # "applied" => UNCHANGED subs
  /\ rec.outcome = "applied" =>
       subs' = [subs EXCEPT ![rec.sub] =
         Applied(subs[rec.sub], wire[e], PlanDays(subs[rec.sub].plan))]

LEMMA ProcessCases ==
  ASSUME Inv, NEW e \in EventIds, ProcessEvent(e)
  PROVE  \E rec \in EventRows : Processed(e, rec)
  <1> DEFINE ev == wire[e]
  <1>1. ev \in ProviderEvents /\ ev # None /\ events[e] = None
        /\ UNCHANGED <<now, catalog, checkouts, sessions, wire, unlocked, overwritten>>
    BY DEF ProcessEvent, Inv, TypeOK
  <1>2. PICK s \in Mapped(ev.ref) :
          /\ subs' = IF Outcome(s, subs[s], ev, PlanDays(subs[s].plan)) = "applied"
                     THEN [subs EXCEPT ![s] = Applied(subs[s], ev, PlanDays(subs[s].plan))]
                     ELSE subs
          /\ events' = [events EXCEPT ![e] =
               [type |-> ev.type, at |-> ev.at, sub |-> s,
                outcome |-> Outcome(s, subs[s], ev, PlanDays(subs[s].plan))]]
    BY DEF ProcessEvent, Recorded
  <1> DEFINE o == Outcome(s, subs[s], ev, PlanDays(subs[s].plan))
             rec == [type |-> ev.type, at |-> ev.at, sub |-> s, outcome |-> o]
  <1>3. o \in Outcomes /\ o # "ignored_unknown_reference"
    BY OutcomeType
  <1>4. s \in SubIds
    BY DEF Mapped
  <1> HIDE DEF o
  <1>5. rec \in EventRows
    BY <1>1, <1>3, <1>4 DEF EventRows, ProviderEvents
  <1>6. QED
    BY <1>1, <1>2, <1>3, <1>5 DEF o, Processed

LEMMA ProcessEventInv ==
  ASSUME Inv, NEW e \in EventIds, ProcessEvent(e)
  PROVE  Inv'
  <1> DEFINE ev == wire[e]
  <1>1. PICK rec \in EventRows : Processed(e, rec)
    BY ProcessCases
  <1>2. ev \in ProviderEvents /\ rec # None /\ ev.ref \in Refs /\ sessions[ev.ref] # None
        /\ sessions[ev.ref] \in Sessions /\ sessions[ev.ref].sub \in SubIds
    BY <1>1, NoneAssumption DEF Processed, Inv, TypeOK, WireOK, ProviderEvents, Sessions
  <1> DEFINE s == rec.sub
             row == subs[s]
             days == PlanDays(row.plan)
  <1>3. /\ s \in SubIds /\ s # None /\ row \in Rows /\ row # None /\ row.ref = ev.ref
        /\ sessions[ev.ref].sub = s
    <2>1. s \in SubIds /\ row # None /\ row.ref = ev.ref
      BY <1>1 DEF Processed, Mapped
    <2>2. row \in Rows
      BY <2>1 DEF Inv, TypeOK
    <2>3. ev.ref # None /\ s # None
      BY <1>2, <2>1, NoneAssumption
    <2>4. QED
      BY <2>1, <2>2, <2>3 DEF Inv, SessionsOK
  <1>4. days \in Nat
    <2>1. row.plan \in Plans
      BY <1>3 DEF Rows
    <2>2. QED
      BY <2>1, PlanDaysType
  <1>5. /\ rec.outcome = Outcome(s, row, ev, days)
        /\ rec.outcome # "ignored_unknown_reference"
        /\ rec.outcome # "applied" => UNCHANGED subs
        /\ rec.outcome = "applied" => subs' = [subs EXCEPT ![s] = Applied(row, ev, days)]
        /\ events' = [events EXCEPT ![e] = rec]
        /\ rec.type = ev.type /\ rec.at = ev.at /\ events[e] = None
        /\ UNCHANGED <<now, catalog, checkouts, sessions, wire, unlocked, overwritten>>
    BY <1>1 DEF Processed
  <1>6. CASE rec.outcome # "applied"
    <2>1. UNCHANGED subs
      BY <1>5, <1>6
    <2>2. ev.type = "payment_refunded" /\ rec.outcome = "ignored_terminal" =>
            row.status = "refunded"
      BY <1>5 DEF Outcome, Final
    <2>3. TypeOK'
      BY <1>5, <2>1 DEF Inv, TypeOK
    <2>4. EventsOK'
      BY <1>2, <1>3, <1>5, <1>1, <2>1 DEF Processed, Inv, TypeOK, EventsOK
    <2>5. RefundsOK'
      BY <1>5, <1>6, <2>1, <2>2 DEF Inv, TypeOK, RefundsOK
    <2> HIDE DEF s, row, days, ev
    <2>6. QED
      BY <1>5, <2>1, <2>3, <2>4, <2>5, DeliveriesStand
      DEF Inv, RequestsOK, SessionsOK, WireOK, RowsOK, OneOpen
  <1>7. CASE rec.outcome = "applied"
    <2> DEFINE new == Applied(row, ev, days)
    <2>1. subs' = [subs EXCEPT ![s] = new]
      BY <1>5, <1>7
    <2>2. /\ new \in Rows /\ new # None /\ new.student = row.student /\ new.plan = row.plan
          /\ new.amount = row.amount /\ new.ref = row.ref
          /\ new.status = NextStatus(row, ev)
          /\ new.paidThrough = NextPaidThrough(row, ev, days)
      BY <1>2, <1>3, <1>4, AppliedType, NoneAssumption
    <2>3. /\ new.status # "pending"
          /\ new.status \in {"active", "past_due"} => new.paidThrough # Never
          /\ row.status # "refunded"
          /\ ev.type = "payment_refunded" => new.status = "refunded"
      <3>1. RowOK(row)
        BY <1>3 DEF Inv, RowsOK
      <3>2. Outcome(s, row, ev, days) = "applied"
        BY <1>5, <1>7
      <3> HIDE DEF ev, s, row, days, new
      <3>3. /\ NextStatus(row, ev) # "pending"
            /\ NextStatus(row, ev) \in {"active", "past_due"} =>
                 NextPaidThrough(row, ev, days) # Never
            /\ row.status # "refunded"
            /\ ev.type = "payment_refunded" => NextStatus(row, ev) = "refunded"
        BY <1>2, <1>3, <1>4, <3>1, <3>2, AppliedRow
      <3>4. QED
        BY <2>2, <3>3
    <2> HIDE DEF new
    <2>4. TypeOK'
      BY <1>1, <1>5, <1>3, <2>1, <2>2 DEF Inv, TypeOK
    <2>5. RequestsOK' /\ SessionsOK' /\ WireOK'
      BY <1>5, <1>3, <2>1, <2>2
      DEF Inv, TypeOK, RequestsOK, SessionsOK, WireOK, Sessions, ProviderEvents
    <2>6. EventsOK'
      BY <1>1, <1>2, <1>3, <1>5, <2>1, <2>2 DEF Processed, Inv, TypeOK, EventsOK
    <2>7. RowsOK' /\ OneOpen'
      BY <1>3, <2>1, <2>2, <2>3 DEF Inv, TypeOK, RowsOK, RowOK, OneOpen
    <2>8. RefundsOK'
      BY <1>5, <1>3, <2>1, <2>2, <2>3 DEF Inv, TypeOK, RefundsOK
    <2>9. DeliveriesOK'
      <3>1. \A t \in SubIds : subs[t] # None /\ subs[t].ref # None =>
              \/ subs'[t] = subs[t]
              \/ /\ subs'[t] # None /\ subs'[t].ref = subs[t].ref /\ subs'[t].status # "pending"
                 /\ subs[t].status = "refunded" /\ t \notin overwritten' =>
                      subs'[t].status = "refunded"
        BY <1>3, <2>1, <2>2, <2>3 DEF Inv, TypeOK
      <3> HIDE DEF s, row, days, ev
      <3>2. QED
        BY <1>5, <3>1, DeliveriesKept DEF DeliveriesOK
    <2>10. QED
      BY <2>4, <2>5, <2>6, <2>7, <2>8, <2>9 DEF Inv
  <1>8. QED
    BY <1>6, <1>7

-----------------------------------------------------------------------------
(* A delivery without a lock.                                              *)

\* It begins: a payment's session is attached, so its delivery finds the row.
LEMMA OverlookInv ==
  ASSUME Inv, NEW e \in EventIds, Overlook(e)
  PROVE  Inv'
  <1>1. Unread \in Deliveries /\ Unread # None /\ Unread.sub = None /\ Unread.outcome = "unread"
    BY NoneAssumption DEF Unread, Deliveries
  <1>2. /\ unlocked' = [unlocked EXCEPT ![e] = Unread] /\ wire[e] # None
        /\ Mapped(wire[e].ref) = {}
        /\ UNCHANGED <<now, catalog, subs, events, checkouts, sessions, wire, overwritten>>
    BY DEF Overlook
  <1>3. wire[e].type # "payment_succeeded"
    <2>1. /\ wire[e] \in ProviderEvents /\ sessions[wire[e].ref] # None
          /\ sessions[wire[e].ref] \in Sessions
      BY <1>2 DEF Inv, TypeOK, WireOK, ProviderEvents
    <2>2. /\ sessions[wire[e].ref].sub \in SubIds /\ subs[sessions[wire[e].ref].sub] # None
      BY <2>1 DEF Inv, SessionsOK, Sessions, ProviderEvents
    <2>3. QED
      BY <1>2, <2>2 DEF Inv, WireOK, Mapped
  <1>4. TypeOK'
    BY <1>1, <1>2 DEF Inv, TypeOK
  <1>5. DeliveriesOK'
    <2> SUFFICES ASSUME NEW x \in EventIds, unlocked'[x] # None PROVE DeliveryOK(x)'
      BY DEF DeliveriesOK
    <2>1. CASE x = e
      <3>1. unlocked'[e] = Unread
        BY <1>2 DEF Inv, TypeOK
      <3>2. QED
        BY <1>1, <1>2, <1>3, <2>1, <3>1 DEF DeliveryOK
    <2>2. CASE x # e
      <3>1. unlocked'[x] = unlocked[x]
        BY <1>2, <2>2 DEF Inv, TypeOK
      <3>2. QED
        BY <1>2, <3>1, DeliveriesKept
    <2>3. QED
      BY <2>1, <2>2
  <1>6. QED
    BY <1>2, <1>4, <1>5
    DEF Inv, RequestsOK, SessionsOK, WireOK, EventsOK, RowsOK, RefundsOK, OneOpen

\* It reads and decides.
LEMMA ReadRowInv ==
  ASSUME Inv, NEW e \in EventIds, ReadRow(e)
  PROVE  Inv'
  <1> DEFINE ev == wire[e]
  <1>0. /\ unlocked[e] = Unread /\ Unread \in Deliveries /\ Unread # None /\ DeliveryOK(e)
        /\ UNCHANGED <<now, catalog, subs, events, checkouts, sessions, wire, overwritten>>
        /\ ev \in ProviderEvents /\ ev # None /\ ev.type # "payment_succeeded"
    <2>1. Unread \in Deliveries /\ Unread # None
      BY NoneAssumption DEF Unread, Deliveries
    <2>2. DeliveryOK(e)
      BY <2>1 DEF ReadRow, Inv, DeliveriesOK
    <2>3. QED
      BY <2>1, <2>2 DEF ReadRow, DeliveryOK, Inv, TypeOK
  <1>1. ASSUME NEW d \in Deliveries, unlocked' = [unlocked EXCEPT ![e] = d],
               \/ d.sub = None /\ d.outcome = "ignored_unknown_reference"
               \/ \E s \in Mapped(ev.ref) : \E days \in Nat :
                    /\ d.sub = s /\ d.row = subs[s]
                    /\ d.outcome = Outcome(s, subs[s], ev, days)
                    /\ d.outcome = "applied" => d.next = Applied(subs[s], ev, days)
        PROVE  Inv'
    <2>0. d # None
      BY NoneAssumption
    <2>1. TypeOK'
      BY <1>0, <1>1 DEF Inv, TypeOK
    <2>2. unlocked'[e] = d
      BY <1>1 DEF Inv, TypeOK
    <2>3. DeliveryOK(e)'
      <3>1. CASE d.sub = None
        <4>1. d.outcome = "ignored_unknown_reference"
          BY <1>1, <3>1, NoneAssumption DEF Mapped
        <4>2. QED
          BY <1>0, <2>2, <3>1, <4>1 DEF DeliveryOK
      <3>2. CASE d.sub # None
        <4>1. PICK days \in Nat :
                /\ d.sub \in Mapped(ev.ref) /\ d.row = subs[d.sub]
                /\ d.outcome = Outcome(d.sub, d.row, ev, days)
                /\ d.outcome = "applied" => d.next = Applied(d.row, ev, days)
          BY <1>1, <3>2
        <4>2. d.sub \in SubIds /\ subs[d.sub] # None /\ subs[d.sub].ref = ev.ref
          BY <4>1 DEF Mapped
        <4>3. d.row \in Rows /\ RowOK(d.row)
          BY <4>1, <4>2 DEF Inv, TypeOK, RowsOK
        <4>4. QED
          BY <1>0, <2>2, <3>2, <4>1, <4>2, <4>3 DEF DeliveryOK
      <3>3. QED
        BY <3>1, <3>2
    <2>4. DeliveriesOK'
      <3> SUFFICES ASSUME NEW x \in EventIds, unlocked'[x] # None, x # e PROVE DeliveryOK(x)'
        BY <2>3 DEF DeliveriesOK
      <3>1. unlocked'[x] = unlocked[x]
        BY <1>1 DEF Inv, TypeOK
      <3>2. QED
        BY <1>0, <3>1, DeliveriesKept
    <2>5. QED
      BY <1>0, <2>1, <2>4
      DEF Inv, RequestsOK, SessionsOK, WireOK, EventsOK, RowsOK, RefundsOK, OneOpen
  <1>2. CASE unlocked' = [unlocked EXCEPT ![e].outcome = "ignored_unknown_reference"]
    <2> DEFINE d == [Unread EXCEPT !.outcome = "ignored_unknown_reference"]
    <2>1. d \in Deliveries /\ d.sub = None /\ d.outcome = "ignored_unknown_reference"
      BY DEF Unread, Deliveries, Outcomes
    <2>2. unlocked' = [unlocked EXCEPT ![e] = d]
      BY <1>0, <1>2
    <2> HIDE DEF d
    <2>3. QED
      BY <1>1, <2>1, <2>2
  <1>3. ASSUME NEW s \in Mapped(ev.ref), NEW days, days = PlanDays(subs[s].plan),
               NEW o, o = Outcome(s, subs[s], ev, days),
               unlocked' = [unlocked EXCEPT ![e] =
                 [sub |-> s, row |-> subs[s], outcome |-> o,
                  next |-> IF o = "applied" THEN Applied(subs[s], ev, days) ELSE subs[s]]]
        PROVE  Inv'
    <2>1. s \in SubIds /\ subs[s] \in Rows /\ subs[s].plan \in Plans
      BY DEF Mapped, Inv, TypeOK, Rows
    <2>2. days \in Nat /\ o \in Outcomes
      BY <1>3, <2>1, PlanDaysType, OutcomeType
    <2>3. Applied(subs[s], ev, days) \in Rows
      BY <1>0, <2>1, <2>2, AppliedType
    <2> DEFINE next == IF o = "applied" THEN Applied(subs[s], ev, days) ELSE subs[s]
               d == [sub |-> s, row |-> subs[s], outcome |-> o, next |-> next]
    <2>4. next \in Rows /\ (o = "applied" => next = Applied(subs[s], ev, days))
      BY <2>1, <2>3
    <2> HIDE DEF next
    <2>5. /\ d \in Deliveries /\ d.sub = s /\ d.row = subs[s] /\ d.outcome = o /\ d.next = next
      BY <2>1, <2>2, <2>4 DEF Deliveries
    <2>6. unlocked' = [unlocked EXCEPT ![e] = d]
      BY <1>3 DEF next
    <2> HIDE DEF d
    <2>7. \E q \in Mapped(ev.ref) : \E x \in Nat :
            /\ d.sub = q /\ d.row = subs[q]
            /\ d.outcome = Outcome(q, subs[q], ev, x)
            /\ d.outcome = "applied" => d.next = Applied(subs[q], ev, x)
      <3>1. /\ d.outcome = Outcome(s, subs[s], ev, days)
            /\ d.outcome = "applied" => d.next = Applied(subs[s], ev, days)
        BY <1>3, <2>4, <2>5
      <3>2. QED
        BY <1>3, <2>2, <2>5, <3>1
    <2>8. d \in Deliveries
      BY <2>5
    <2>9. QED
      BY <1>1, <2>6, <2>7, <2>8
  <1>4. QED
    BY <1>2, <1>3 DEF ReadRow

\* A delivery is forgotten.
LEMMA RollBackInv ==
  ASSUME Inv, NEW e \in EventIds, RollBack(e)
  PROVE  Inv'
  <1>1. /\ unlocked' = [unlocked EXCEPT ![e] = None]
        /\ UNCHANGED <<now, catalog, subs, events, checkouts, sessions, wire, overwritten>>
    BY DEF RollBack
  <1>2. TypeOK'
    BY <1>1 DEF Inv, TypeOK
  <1>3. DeliveriesOK'
    <2> SUFFICES ASSUME NEW x \in EventIds, unlocked'[x] # None PROVE DeliveryOK(x)'
      BY DEF DeliveriesOK
    <2>1. unlocked'[x] = unlocked[x]
      BY <1>1 DEF Inv, TypeOK
    <2>2. QED
      BY <1>1, <2>1, DeliveriesKept
  <1>4. QED
    BY <1>1, <1>2, <1>3
    DEF Inv, RequestsOK, SessionsOK, WireOK, EventsOK, RowsOK, RefundsOK, OneOpen

\* What recording does: with nothing to apply the row stays; otherwise it takes the status,
\* the period and the time of the answer to what was read, and is overwritten if it had
\* changed.
LEMMA RecordCases ==
  ASSUME Inv, NEW e \in EventIds, Record(e)
  PROVE  LET d == unlocked[e]
             s == d.sub
             ev == wire[e]
         IN
         /\ d \in Deliveries /\ DeliveryOK(e) /\ ev \in ProviderEvents /\ ev # None
         /\ ev.type # "payment_succeeded" /\ events[e] = None
         /\ \E rec \in EventRows :
              /\ rec.type = ev.type /\ rec.at = ev.at /\ rec.sub = s /\ rec.outcome = d.outcome
              /\ events' = [events EXCEPT ![e] = rec]
         /\ unlocked' = [unlocked EXCEPT ![e] = None]
         /\ UNCHANGED <<now, catalog, checkouts, sessions, wire>>
         /\ s = None <=> d.outcome = "ignored_unknown_reference"
         /\ d.outcome # "applied" => UNCHANGED <<subs, overwritten>>
         /\ d.outcome = "applied" =>
              /\ s \in SubIds /\ subs[s] \in Rows /\ subs[s] # None /\ d.row \in Rows
              /\ overwritten' = IF subs[s] # d.row THEN overwritten \cup {s} ELSE overwritten
              /\ subs[s] # d.row => subs[s].status # "pending"
              /\ \E new \in Rows :
                   /\ subs' = [subs EXCEPT ![s] = new]
                   /\ new # None /\ new.student = subs[s].student /\ new.plan = subs[s].plan
                   /\ new.amount = subs[s].amount /\ new.ref = subs[s].ref
                   /\ new.status # "pending" /\ RowOK(new)
                   /\ d.row.status # "refunded"
                   /\ ev.type = "payment_refunded" => new.status = "refunded"
                   /\ new.paidThrough = d.row.paidThrough
                   /\ new.lastEventAt = Later(d.row.lastEventAt, ev.at)
                   /\ subs[s] = d.row =>
                        \E days \in Nat : /\ Outcome(s, subs[s], ev, days) = "applied"
                                         /\ new = Applied(subs[s], ev, days)
  <1> DEFINE d == unlocked[e]
             s == d.sub
             ev == wire[e]
  <1>1. d \in Deliveries /\ DeliveryOK(e) /\ d # None /\ d.outcome # "unread"
    BY DEF Record, Inv, TypeOK, DeliveriesOK
  <1>2. ev # None /\ ev \in ProviderEvents /\ ev.type # "payment_succeeded" /\ events[e] = None
    BY <1>1 DEF DeliveryOK, Record, Inv, TypeOK
  <1>3. \E rec \in EventRows :
          /\ rec.type = ev.type /\ rec.at = ev.at /\ rec.sub = s /\ rec.outcome = d.outcome
          /\ events' = [events EXCEPT ![e] = rec]
    <2> DEFINE rec == [type |-> ev.type, at |-> ev.at, sub |-> s, outcome |-> d.outcome]
    <2>1. rec \in EventRows
      BY <1>1, <1>2 DEF Deliveries, EventRows, ProviderEvents
    <2>2. events' = [events EXCEPT ![e] = rec]
      BY DEF Record, Recorded
    <2>3. QED
      BY <2>1, <2>2
  <1>4. s = None <=> d.outcome = "ignored_unknown_reference"
    BY <1>1, OutcomeType DEF DeliveryOK
  <1>5. ASSUME d.outcome = "applied"
        PROVE  /\ s \in SubIds /\ subs[s] \in Rows /\ subs[s] # None /\ d.row \in Rows
               /\ overwritten' = IF subs[s] # d.row THEN overwritten \cup {s} ELSE overwritten
               /\ subs[s] # d.row => subs[s].status # "pending"
               /\ \E new \in Rows :
                    /\ subs' = [subs EXCEPT ![s] = new]
                    /\ new # None /\ new.student = subs[s].student /\ new.plan = subs[s].plan
                    /\ new.amount = subs[s].amount /\ new.ref = subs[s].ref
                    /\ new.status # "pending" /\ RowOK(new)
                    /\ d.row.status # "refunded"
                    /\ ev.type = "payment_refunded" => new.status = "refunded"
                    /\ new.paidThrough = d.row.paidThrough
                    /\ new.lastEventAt = Later(d.row.lastEventAt, ev.at)
                    /\ subs[s] = d.row =>
                         \E days \in Nat : /\ Outcome(s, subs[s], ev, days) = "applied"
                                          /\ new = Applied(subs[s], ev, days)
    <2>1. s # None /\ s \in SubIds
      BY <1>1, <1>4, <1>5 DEF Deliveries
    <2>2. /\ subs[s] # None /\ subs[s] \in Rows
          /\ d.row \in Rows /\ RowOK(d.row)
          /\ subs[s] # d.row => subs[s].status # "pending"
      BY <1>1, <2>1 DEF DeliveryOK, Inv, TypeOK
    <2>3. PICK days \in Nat : /\ Outcome(s, d.row, ev, days) = "applied"
                              /\ d.next = Applied(d.row, ev, days)
      BY <1>1, <1>5, <2>1 DEF DeliveryOK
    <2>4. overwritten' = IF subs[s] # d.row THEN overwritten \cup {s} ELSE overwritten
      BY <1>5 DEF Record
    <2> DEFINE new == [subs[s] EXCEPT !.status = d.next.status,
                                      !.paidThrough = d.next.paidThrough,
                                      !.lastEventAt = d.next.lastEventAt]
    <2>5. subs' = [subs EXCEPT ![s] = new]
      BY <1>5, <2>1 DEF Record, Inv, TypeOK
    <2>6. /\ d.next \in Rows /\ d.next.status = NextStatus(d.row, ev)
          /\ d.next.paidThrough = NextPaidThrough(d.row, ev, days)
          /\ d.next.lastEventAt = Later(d.row.lastEventAt, ev.at)
          /\ d.next.student = d.row.student /\ d.next.plan = d.row.plan
          /\ d.next.amount = d.row.amount /\ d.next.ref = d.row.ref
      BY <1>2, <2>2, <2>3, AppliedType
    <2>7. /\ new \in Rows /\ new # None /\ new.student = subs[s].student /\ new.plan = subs[s].plan
          /\ new.amount = subs[s].amount /\ new.ref = subs[s].ref
          /\ new.status = d.next.status /\ new.paidThrough = d.next.paidThrough
          /\ new.lastEventAt = d.next.lastEventAt
      <3> DEFINE to == d.next
      <3>1. to \in Rows
        BY <2>6
      <3> HIDE DEF d, to
      <3>2. /\ [subs[s] EXCEPT !.status = to.status, !.paidThrough = to.paidThrough,
                               !.lastEventAt = to.lastEventAt] \in Rows
        BY <2>2, <3>1 DEF Rows
      <3>3. QED
        BY <2>2, <3>1, <3>2, NoneAssumption DEF Rows, to
    <2>8. subs[s] = d.row => new = d.next
      BY <2>2, <2>6 DEF Rows
    <2> HIDE DEF new, d, s, ev
    <2>9. /\ NextStatus(d.row, ev) # "pending"
          /\ NextStatus(d.row, ev) \in {"active", "past_due"} =>
               NextPaidThrough(d.row, ev, days) # Never
          /\ d.row.status # "refunded"
          /\ ev.type = "payment_refunded" => NextStatus(d.row, ev) = "refunded"
      BY <1>2, <2>2, <2>3, AppliedRow
    <2>10. NextPaidThrough(d.row, ev, days) = d.row.paidThrough
      BY <1>2 DEF NextPaidThrough
    <2>11. RowOK(new)
      BY <2>6, <2>7, <2>9 DEF RowOK
    <2>12. QED
      BY <2>1, <2>2, <2>3, <2>4, <2>5, <2>6, <2>7, <2>8, <2>9, <2>10, <2>11
  <1>6. QED
    BY <1>1, <1>2, <1>3, <1>4, <1>5 DEF Record

LEMMA RecordInv ==
  ASSUME Inv, NEW e \in EventIds, Record(e)
  PROVE  Inv'
  <1> DEFINE d == unlocked[e]
             s == d.sub
             ev == wire[e]
  <1>1. /\ d \in Deliveries /\ DeliveryOK(e) /\ ev \in ProviderEvents /\ ev # None
        /\ ev.type # "payment_succeeded" /\ events[e] = None
        /\ unlocked' = [unlocked EXCEPT ![e] = None]
        /\ UNCHANGED <<now, catalog, checkouts, sessions, wire>>
        /\ s = None <=> d.outcome = "ignored_unknown_reference"
        /\ s \in SubIds \cup {None}
    BY RecordCases DEF Deliveries
  <1>2. PICK rec \in EventRows :
          /\ rec.type = ev.type /\ rec.at = ev.at /\ rec.sub = s /\ rec.outcome = d.outcome
          /\ events' = [events EXCEPT ![e] = rec]
    BY RecordCases
  <1>3. rec # None
    BY NoneAssumption
  <1>4. s # None => subs[s] # None
    BY <1>1 DEF DeliveryOK
  <1>5. CASE d.outcome # "applied"
    <2>1. UNCHANGED <<subs, overwritten>>
      BY <1>5, RecordCases
    <2>2. /\ ev.type = "payment_refunded" /\ d.outcome = "ignored_terminal" /\ s \notin overwritten
             => subs[s].status = "refunded"
      <3>1. /\ ev.type = "payment_refunded" /\ d.outcome = "ignored_terminal" =>
                 s # None /\ d.row.status = "refunded"
        BY <1>1 DEF DeliveryOK, Outcome, Final
      <3>2. QED
        BY <1>1, <3>1 DEF DeliveryOK
    <2> HIDE DEF d, s, ev
    <2>3. TypeOK'
      BY <1>1, <1>2, <2>1 DEF Inv, TypeOK
    <2>4. EventsOK'
      BY <1>1, <1>2, <1>3, <1>4, <2>1 DEF ev, Inv, TypeOK, EventsOK
    <2>5. RefundsOK'
      BY <1>1, <1>2, <1>5, <2>1, <2>2 DEF Inv, TypeOK, RefundsOK
    <2>6. DeliveriesOK'
      <3> SUFFICES ASSUME NEW x \in EventIds, unlocked'[x] # None PROVE DeliveryOK(x)'
        BY DEF DeliveriesOK
      <3>1. unlocked'[x] = unlocked[x]
        BY <1>1 DEF Inv, TypeOK
      <3>2. QED
        BY <1>1, <2>1, <3>1, DeliveriesKept
    <2>7. QED
      BY <1>1, <2>1, <2>3, <2>4, <2>5, <2>6 DEF Inv, RequestsOK, SessionsOK, WireOK, RowsOK, OneOpen
  <1>6. CASE d.outcome = "applied"
    <2>1. /\ s \in SubIds /\ subs[s] \in Rows /\ subs[s] # None /\ d.row \in Rows
          /\ overwritten' = IF subs[s] # d.row THEN overwritten \cup {s} ELSE overwritten
      BY <1>6, RecordCases
    <2>2. PICK new \in Rows :
            /\ subs' = [subs EXCEPT ![s] = new]
            /\ new # None /\ new.student = subs[s].student /\ new.plan = subs[s].plan
            /\ new.amount = subs[s].amount /\ new.ref = subs[s].ref
            /\ new.status # "pending" /\ RowOK(new)
            /\ d.row.status # "refunded"
            /\ ev.type = "payment_refunded" => new.status = "refunded"
      BY <1>6, RecordCases
    <2> DEFINE read == d.row
    <2>3. read.status # "refunded"
      BY <2>2
    <2> HIDE DEF d, s, ev, read
    <2>4. TypeOK'
      BY <1>1, <1>2, <2>1, <2>2 DEF Inv, TypeOK
    <2>5. RequestsOK' /\ SessionsOK' /\ WireOK'
      BY <1>1, <2>1, <2>2
      DEF Inv, TypeOK, RequestsOK, SessionsOK, WireOK, Sessions, ProviderEvents
    <2>6. EventsOK'
      BY <1>1, <1>2, <1>3, <2>1, <2>2 DEF ev, Inv, TypeOK, EventsOK
    <2>7. RowsOK' /\ OneOpen'
      BY <2>1, <2>2 DEF Inv, TypeOK, RowsOK, OneOpen
    <2>8. s \notin overwritten' => s \notin overwritten /\ subs[s].status # "refunded"
      BY <2>1, <2>3 DEF read
    <2>9. RefundsOK'
      <3> SUFFICES ASSUME NEW x \in EventIds, events'[x] # None,
                          events'[x].type = "payment_refunded",
                          events'[x].outcome \in {"applied", "ignored_terminal"},
                          events'[x].sub \notin overwritten'
                   PROVE  subs'[events'[x].sub].status = "refunded"
        BY DEF RefundsOK
      <3>1. CASE x = e
        BY <1>2, <2>1, <2>2, <3>1 DEF Inv, TypeOK
      <3>2. CASE x # e
        <4>1. events'[x] = events[x]
          BY <1>2, <3>2 DEF Inv, TypeOK
        <4>2. events[x].sub \notin overwritten
          BY <2>1, <4>1
        <4>3. subs[events[x].sub].status = "refunded"
          BY <4>1, <4>2 DEF Inv, RefundsOK
        <4>4. CASE events[x].sub = s
          BY <2>8, <4>1, <4>3, <4>4
        <4>5. CASE events[x].sub # s
          BY <2>2, <4>1, <4>3, <4>5 DEF Inv, TypeOK
        <4>6. QED
          BY <4>4, <4>5
      <3>3. QED
        BY <3>1, <3>2
    <2>10. DeliveriesOK'
      <3>1. \A t \in SubIds : subs[t] # None /\ subs[t].ref # None =>
              \/ subs'[t] = subs[t]
              \/ /\ subs'[t] # None /\ subs'[t].ref = subs[t].ref /\ subs'[t].status # "pending"
                 /\ subs[t].status = "refunded" /\ t \notin overwritten' =>
                      subs'[t].status = "refunded"
        BY <2>1, <2>2, <2>8 DEF Inv, TypeOK
      <3> SUFFICES ASSUME NEW x \in EventIds, unlocked'[x] # None PROVE DeliveryOK(x)'
        BY DEF DeliveriesOK
      <3>2. unlocked'[x] = unlocked[x] /\ unlocked[x] # None
        BY <1>1 DEF Inv, TypeOK
      <3>3. overwritten \subseteq overwritten'
        BY <2>1
      <3>4. QED
        BY <1>1, <3>1, <3>2, <3>3, DeliveriesKept
    <2>11. QED
      BY <2>4, <2>5, <2>6, <2>7, <2>9, <2>10 DEF Inv
  <1>7. QED
    BY <1>5, <1>6

-----------------------------------------------------------------------------
(* The invariant holds in every reachable state.                           *)

LEMMA InitInv ==
  ASSUME Init
  PROVE  Inv
  <1>1. TypeOK
    <2>1. Idle \in Checkouts
      BY DEF Idle, Checkouts
    <2>2. QED
      BY <2>1 DEF Init, TypeOK, Offers
  <1>2. RequestsOK
    BY DEF Init, RequestsOK, Idle, InFlight
  <1>3. QED
    BY <1>1, <1>2
    DEF Init, Inv, SessionsOK, WireOK, EventsOK, RowsOK, RefundsOK, OneOpen, DeliveriesOK

LEMMA StutterInv ==
  ASSUME Inv, UNCHANGED vars
  PROVE  Inv'
  BY DeliveriesStand DEF vars, Inv, TypeOK, RequestsOK, SessionsOK, WireOK, EventsOK, RowsOK, RefundsOK, OneOpen

LEMMA TickInv ==
  ASSUME Inv, Tick
  PROVE  Inv'
  BY DeliveriesStand DEF Tick, Inv, TypeOK, RequestsOK, SessionsOK, WireOK, EventsOK, RowsOK, RefundsOK, OneOpen

LEMMA RedeployInv ==
  ASSUME Inv, NEW p \in Plans, NEW offer \in Offers, Redeploy(p, offer)
  PROVE  Inv'
  BY DeliveriesStand DEF Redeploy, Inv, TypeOK, RequestsOK, SessionsOK, WireOK, EventsOK, RowsOK, RefundsOK,
         OneOpen

LEMMA NextInv ==
  ASSUME Inv, [Next]_vars
  PROVE  Inv'
  <1>1. CASE UNCHANGED vars
    BY <1>1, StutterInv
  <1>2. ASSUME NEW r \in Requests, NEW st \in Students, NEW p \in Plans, StartCheckout(r, st, p)
        PROVE  Inv'
    BY <1>2, StartCheckoutInv
  <1>3. ASSUME NEW r \in Requests, InsertPending(r)
        PROVE  Inv'
    BY <1>3, InsertPendingInv
  <1>4. ASSUME NEW r \in Requests, FindPending(r)
        PROVE  Inv'
    BY <1>4, FindPendingInv
  <1>5. ASSUME NEW r \in Requests, CreateSession(r)
        PROVE  Inv'
    BY <1>5, CreateSessionInv
  <1>6. ASSUME NEW r \in Requests, Attach(r)
        PROVE  Inv'
    BY <1>6, AttachInv
  <1>7. ASSUME NEW r \in Requests, Abandon(r)
        PROVE  Inv'
    BY <1>7, AbandonInv
  <1>8. ASSUME NEW e \in EventIds, NEW f \in Refs, NEW amount \in Amounts, NEW echo \in Echoed,
               Pays(e, f, amount, echo)
        PROVE  Inv'
    BY <1>8, PaysInv
  <1>9. ASSUME NEW e \in EventIds, NEW f \in Refs, NEW echo \in Echoed,
               NEW type \in EventTypes \ {"payment_succeeded"}, Reports(e, type, f, echo)
        PROVE  Inv'
    BY <1>9, ReportsInv
  <1>10. ASSUME NEW e \in EventIds, ProcessEvent(e)
         PROVE  Inv'
    BY <1>10, ProcessEventInv
  <1>11. ASSUME NEW e \in EventIds, Redeliver(e)
         PROVE  Inv'
    BY <1>11, StutterInv DEF Redeliver
  <1>12. ASSUME NEW p \in Plans, NEW offer \in Offers, Redeploy(p, offer)
         PROVE  Inv'
    BY <1>12, RedeployInv
  <1>13. CASE Tick
    BY <1>13, TickInv
  <1>14. ASSUME NEW e \in EventIds, Overlook(e) \/ ReadRow(e) \/ Record(e) \/ RollBack(e)
         PROVE  Inv'
    BY <1>14, OverlookInv, ReadRowInv, RecordInv, RollBackInv
  <1>15. QED
    BY <1>1, <1>2, <1>3, <1>4, <1>5, <1>6, <1>7, <1>8, <1>9, <1>10, <1>11, <1>12, <1>13, <1>14
    DEF Next

\* The inductive invariant of the checkout and the webhook.
THEOREM InvHolds == Spec => []Inv
  <1>1. Init => Inv
    BY InitInv
  <1>2. Inv /\ [Next]_vars => Inv'
    BY NextInv
  <1>3. QED
    BY <1>1, <1>2, PTL DEF Spec

\* Every table row, event, request and session stays well typed: the enumerations
\* of subscription.ts, the columns of migration 0018.
THEOREM TypeCorrect == Spec => []TypeOK
  <1>1. Inv => TypeOK
    BY DEF Inv
  <1>2. QED
    BY <1>1, InvHolds, PTL

\* A recorded refund is final for its row, whatever is delivered before or after it.
THEOREM RefundIsFinal == Spec => []RefundRevokes
  <1>1. Inv => RefundRevokes
    BY DEF Inv, RefundsOK, RefundRevokes
  <1>2. QED
    BY <1>1, InvHolds, PTL

\* Every recorded payment was credited to the row its session was opened for.
THEOREM PaymentsFindTheirRow == Spec => []NoOrphanPayment
  <1>1. Inv => NoOrphanPayment
    BY DEF Inv, EventsOK, NoOrphanPayment
  <1>2. QED
    BY <1>1, InvHolds, PTL

\* A payment is never delivered without the lock: its page was handed out only after its
\* reference was attached.  What an overlooked delivery can take away, none can add.
PaymentsLocked == \A e \in EventIds : unlocked[e] # None => wire[e].type # "payment_succeeded"

THEOREM PaymentsAreLocked == Spec => []PaymentsLocked
  <1>1. Inv => PaymentsLocked
    BY DEF Inv, DeliveriesOK, DeliveryOK, PaymentsLocked
  <1>2. QED
    BY <1>1, InvHolds, PTL

\* The provider's session asks for the amount of the row, under any number of
\* concurrent requests and price changes.
THEOREM ChargedRight == Spec => []ChargedAsRecorded
  <1>1. Inv => ChargedAsRecorded
    BY DEF Inv, SessionsOK, ChargedAsRecorded
  <1>2. QED
    BY <1>1, InvHolds, PTL

\* The CHECK constraints of the table reject no update of the webhook.
THEOREM ConstraintsHold == Spec => []ChecksHold
  <1>1. Inv => ChecksHold
    BY DEF Inv, RowsOK, RowOK, ChecksHold
  <1>2. QED
    BY <1>1, InvHolds, PTL

\* A student has at most one open checkout per plan.
THEOREM OneOpenHolds == Spec => []OneOpenCheckout
  <1>1. ASSUME Inv, NEW st \in Students, NEW p \in Plans
        PROVE  Cardinality(Pending(st, p)) <= 1
    <2>1. CASE Pending(st, p) = {}
      BY <2>1, FS_EmptySet
    <2>2. ASSUME NEW s \in Pending(st, p)
          PROVE  Cardinality(Pending(st, p)) <= 1
      <3>1. \A t \in Pending(st, p) : t = s
        BY <1>1, <2>2 DEF Inv, OneOpen, Pending, Of
      <3>2. Pending(st, p) = {s}
        BY <2>2, <3>1
      <3>3. Cardinality({s}) = 1
        BY FS_Singleton
      <3>4. QED
        BY <3>2, <3>3
    <2>3. QED
      BY <2>1, <2>2
  <1>2. Inv => OneOpenCheckout
    BY <1>1 DEF OneOpenCheckout
  <1>3. QED
    BY <1>2, InvHolds, PTL

-----------------------------------------------------------------------------
(* The paid period and the payments that made it.                          *)

\* A period that ends at most n durations after the latest event.
AtMost(row, D, n) ==
  IF n = 0 THEN row.paidThrough = Never ELSE row.paidThrough <= row.lastEventAt + D * n

\* At most what the payments buy; and at least that, from any moment t on, unless a delivery
\* has written over the row.
PeriodOK(s) ==
  IF subs[s] = None THEN Payments(s) = {}
  ELSE /\ AtMost(subs[s], Days[subs[s].plan], Cardinality(Payments(s)))
       /\ s \notin overwritten =>
            \A t \in Nat : Since(s, t) # {} =>
              subs[s].paidThrough >= t + Days[subs[s].plan] * Cardinality(Since(s, t))

\* The row a delivery without a lock has read had no longer a period than that either.
ReadOK(e) ==
  LET d == unlocked[e] IN
  d.sub # None => AtMost(d.row, Days[subs[d.sub].plan], Cardinality(Payments(d.sub)))

PeriodInv ==
  /\ \A s \in SubIds : IsFiniteSet(Payments(s)) /\ PeriodOK(s)
  /\ \A e \in EventIds : unlocked[e] # None => ReadOK(e)

LEMMA OneMore ==
  ASSUME NEW D \in Nat, NEW n \in Nat
  PROVE  D * (n + 1) = D * n + D /\ D * n \in Nat
  OBVIOUS

LEMMA RowTimes ==
  ASSUME NEW row \in Rows
  PROVE  /\ row.paidThrough \in Int /\ row.paidThrough >= -1
         /\ row.lastEventAt \in Int /\ row.lastEventAt >= -1
  BY DEF Rows, Never

\* A period stays within its bound when one more payment is counted, when an event that is
\* no payment is, and when a payment extends it.
LEMMA AtMostCounted ==
  ASSUME NEW row \in Rows, NEW D \in Nat, NEW n \in Nat, AtMost(row, D, n)
  PROVE  AtMost(row, D, n + 1)
  BY OneMore, RowTimes DEF AtMost, Never

LEMMA AtMostMoved ==
  ASSUME NEW row \in Rows, NEW new \in Rows, NEW D \in Nat, NEW n \in Nat, AtMost(row, D, n),
         new.paidThrough = row.paidThrough, new.lastEventAt >= row.lastEventAt
  PROVE  AtMost(new, D, n)
  BY OneMore, RowTimes DEF AtMost, Never

LEMMA AtMostPaid ==
  ASSUME NEW row \in Rows, NEW new, NEW D \in Nat, NEW n \in Nat, AtMost(row, D, n),
         NEW at \in Nat, new.paidThrough = Later(row.paidThrough, at) + D,
         new.lastEventAt = Later(row.lastEventAt, at)
  PROVE  AtMost(new, D, n + 1)
  <1>1. D * (n + 1) = D * n + D /\ D * n \in Nat
    BY OneMore
  <1>2. row.paidThrough <= Later(row.lastEventAt, at) + D * n
    BY <1>1, RowTimes DEF AtMost, Later, Never
  <1>3. QED
    BY <1>1, <1>2, RowTimes DEF AtMost, Later

LEMMA SinceFinite ==
  ASSUME NEW s, NEW t, IsFiniteSet(Payments(s))
  PROVE  IsFiniteSet(Since(s, t)) /\ Cardinality(Since(s, t)) \in Nat
  BY FS_Subset, FS_CardinalityType DEF Since

\* A step that keeps the payments and the plan of a row, and its paid period unless it
\* writes over it.
LEMMA PeriodKept ==
  ASSUME NEW s \in SubIds, PeriodOK(s), Payments(s)' = Payments(s),
         \A t \in Nat : Since(s, t)' = Since(s, t),
         overwritten \subseteq overwritten',
         \/ subs'[s] = subs[s]
         \/ subs[s] = None /\ subs'[s] # None /\ subs'[s].paidThrough = Never
         \/ /\ subs[s] # None /\ subs'[s] # None /\ subs'[s].plan = subs[s].plan
            /\ AtMost(subs'[s], Days[subs[s].plan], Cardinality(Payments(s)))
            /\ s \notin overwritten' => subs'[s].paidThrough = subs[s].paidThrough
  PROVE  PeriodOK(s)'
  <1>1. CASE subs'[s] = subs[s]
    BY <1>1 DEF PeriodOK, AtMost
  <1>2. CASE subs[s] = None /\ subs'[s] # None /\ subs'[s].paidThrough = Never
    <2>1. Payments(s) = {} /\ \A t \in Nat : Since(s, t) = {}
      BY <1>2 DEF PeriodOK, Since
    <2>2. Cardinality({}) = 0
      BY FS_EmptySet
    <2>3. QED
      BY <1>2, <2>1, <2>2 DEF PeriodOK, AtMost
  <1>3. CASE /\ subs[s] # None /\ subs'[s] # None /\ subs'[s].plan = subs[s].plan
             /\ AtMost(subs'[s], Days[subs[s].plan], Cardinality(Payments(s)))
             /\ s \notin overwritten' => subs'[s].paidThrough = subs[s].paidThrough
    BY <1>3 DEF PeriodOK, AtMost
  <1>4. QED
    BY <1>1, <1>2, <1>3

\* What a delivery has read stays within the bound of the row's payments.
LEMMA ReadKept ==
  ASSUME Inv, PeriodInv, NEW e \in EventIds, unlocked[e] # None, unlocked'[e] = unlocked[e],
         \A s \in SubIds : /\ subs[s] # None => subs'[s].plan = subs[s].plan
                           /\ Cardinality(Payments(s)') \in
                                {Cardinality(Payments(s)), Cardinality(Payments(s)) + 1}
  PROVE  ReadOK(e)'
  <1> DEFINE d == unlocked[e]
             s == d.sub
             D == Days[subs[s].plan]
             n == Cardinality(Payments(s))
  <1> SUFFICES ASSUME s # None
               PROVE  AtMost(d.row, Days[subs'[s].plan], Cardinality(Payments(s)'))
    BY DEF ReadOK, AtMost
  <1>1. s \in SubIds /\ subs[s] # None /\ d.row \in Rows
    BY DEF Inv, TypeOK, Deliveries, DeliveriesOK, DeliveryOK
  <1>2. subs[s].plan \in Plans
    BY <1>1 DEF Inv, TypeOK, Rows
  <1>3. D \in Nat /\ n \in Nat
    BY <1>1, <1>2, DaysAssumption, FS_CardinalityType DEF PeriodInv
  <1>4. AtMost(d.row, D, n)
    BY DEF PeriodInv, ReadOK
  <1>5. Days[subs'[s].plan] = D /\ Cardinality(Payments(s)') \in {n, n + 1}
    BY <1>1
  <1> HIDE DEF d, s, D, n
  <1>6. QED
    BY <1>1, <1>3, <1>4, <1>5, AtMostCounted

\* The arithmetic of one payment: it extends the period by its plan's duration,
\* from the end of the period already paid for or from its own time.
LEMMA PaymentExtends ==
  ASSUME NEW s \in SubIds, NEW e \in EventIds, NEW ev \in ProviderEvents,
         IsFiniteSet(Payments(s)), PeriodOK(s), e \notin Payments(s), UNCHANGED overwritten,
         subs[s] \in Rows, subs[s] # None, subs'[s] # None,
         events' = [events EXCEPT ![e] = events'[e]], events \in [EventIds -> EventRows \cup {None}],
         events'[e] # None, events'[e].sub = s, events'[e].outcome = "applied",
         events'[e].type = "payment_succeeded", events'[e].at = ev.at,
         subs'[s].plan = subs[s].plan,
         subs'[s].paidThrough = Later(subs[s].paidThrough, ev.at) + Days[subs[s].plan],
         subs'[s].lastEventAt = Later(subs[s].lastEventAt, ev.at)
  PROVE  /\ IsFiniteSet(Payments(s))' /\ PeriodOK(s)'
         /\ Cardinality(Payments(s)') = Cardinality(Payments(s)) + 1
  <1> DEFINE D == Days[subs[s].plan]
             P == Payments(s)
             paid == subs[s].paidThrough
             last == subs[s].lastEventAt
             at == ev.at
  <1>1. /\ D \in Nat /\ at \in Nat /\ paid \in Int /\ paid >= -1 /\ last \in Int /\ last >= -1
    BY DaysAssumption DEF Rows, ProviderEvents, Never
  <1>2. /\ P' = P \cup {e}
        /\ \A t \in Nat : Since(s, t)' = IF at >= t THEN Since(s, t) \cup {e} ELSE Since(s, t)
        /\ \A t \in Nat : e \notin Since(s, t)
    BY DEF Payments, Since
  <1>3. /\ IsFiniteSet(P') /\ Cardinality(P') = Cardinality(P) + 1 /\ Cardinality(P) \in Nat
    BY <1>2, FS_AddElement, FS_CardinalityType
  <1>5. ASSUME NEW t \in Nat, Since(s, t)' # {}, s \notin overwritten
        PROVE  subs'[s].paidThrough >= t + D * Cardinality(Since(s, t)')
    <2> DEFINE S == Since(s, t)
               n == Cardinality(S)
    <2>1. IsFiniteSet(S) /\ n \in Nat
      BY SinceFinite
    <2>2. S # {} => paid >= t + D * n
      BY <1>5 DEF PeriodOK
    <2>3. CASE at < t
      <3>1. S' = S /\ S # {}
        BY <1>1, <1>2, <1>5, <2>3
      <3>2. D * n \in Nat
        BY <1>1, <2>1, OneMore
      <3>3. QED
        BY <1>1, <2>2, <3>1, <3>2 DEF Later
    <2>4. CASE at >= t
      <3>1. S' = S \cup {e} /\ e \notin S
        BY <1>2, <2>4
      <3>2. Cardinality(S') = n + 1
        BY <2>1, <3>1, FS_AddElement
      <3>3. D * (n + 1) = D * n + D /\ D * n \in Nat
        BY <1>1, <2>1, OneMore
      <3>4. CASE S # {}
        BY <1>1, <2>2, <3>2, <3>3, <3>4 DEF Later
      <3>5. CASE S = {}
        <4>1. n = 0 /\ D * n = 0
          <5>1. Cardinality({}) = 0
            BY FS_EmptySet
          <5>2. n = 0
            BY <3>5, <5>1
          <5> HIDE DEF n, D
          <5>3. QED
            BY <1>1, <5>2
        <4>2. D * Cardinality(S') = D
          BY <1>1, <3>2, <3>3, <4>1
        <4>3. subs'[s].paidThrough \in Int /\ subs'[s].paidThrough >= at + D
          BY <1>1 DEF Later
        <4>4. QED
          BY <1>1, <2>4, <4>2, <4>3
      <3>6. QED
        BY <3>4, <3>5
    <2>5. QED
      BY <1>1, <2>3, <2>4
  <1>6. AtMost(subs'[s], D, Cardinality(P'))
    <2>1. AtMost(subs[s], D, Cardinality(P))
      BY DEF PeriodOK
    <2> HIDE DEF D, P
    <2>2. AtMost(subs'[s], D, Cardinality(P) + 1)
      BY <1>1, <1>3, <2>1, AtMostPaid DEF D
    <2>3. QED
      BY <1>3, <2>2
  <1>7. QED
    BY <1>3, <1>5, <1>6 DEF PeriodOK, AtMost

\* An event that is not a payment moves no period, and is no payment.
LEMMA PeriodOfProcessed ==
  ASSUME Inv, Inv', PeriodInv, NEW e \in EventIds, ProcessEvent(e)
  PROVE  PeriodInv'
  <1>1. PICK rec \in EventRows : Processed(e, rec)
    BY ProcessCases
  <1> DEFINE ev == wire[e]
  <1>2. /\ ev \in ProviderEvents /\ events[e] = None /\ events \in [EventIds -> EventRows \cup {None}]
        /\ events' = [events EXCEPT ![e] = rec] /\ events'[e] = rec /\ rec # None
        /\ rec.type = ev.type /\ rec.at = ev.at /\ UNCHANGED <<unlocked, overwritten>>
    BY <1>1, NoneAssumption DEF Processed, Inv, TypeOK
  <1>3. ASSUME NEW s \in SubIds
        PROVE  /\ IsFiniteSet(Payments(s))' /\ PeriodOK(s)'
               /\ subs[s] # None => subs'[s].plan = subs[s].plan
               /\ Cardinality(Payments(s)') \in
                    {Cardinality(Payments(s)), Cardinality(Payments(s)) + 1}
    <2> DEFINE pays == rec.sub = s /\ rec.type = "payment_succeeded" /\ rec.outcome = "applied"
    <2>0. IsFiniteSet(Payments(s)) /\ PeriodOK(s) /\ e \notin Payments(s)
      BY <1>2 DEF PeriodInv, Payments
    <2>1. CASE ~pays
      <3>1. Payments(s)' = Payments(s) /\ \A t \in Nat : Since(s, t)' = Since(s, t)
        BY <1>2, <2>1 DEF Payments, Since
      <3>2. CASE subs'[s] = subs[s]
        BY <1>2, <2>0, <3>1, <3>2, PeriodKept
      <3>3. CASE subs'[s] # subs[s]
        <4> DEFINE days == PlanDays(subs[s].plan)
        <4>1. /\ rec.sub = s /\ rec.outcome = "applied" /\ subs[s] # None
              /\ subs'[s] = Applied(subs[s], ev, days)
          BY <1>1, <3>3 DEF Processed, Mapped, Inv, TypeOK
        <4>2. subs[s] \in Rows /\ subs[s].plan \in Plans
          BY <4>1 DEF Inv, TypeOK, Rows
        <4>3. days \in Nat /\ Days[subs[s].plan] \in Nat /\ Cardinality(Payments(s)) \in Nat
          BY <2>0, <4>2, PlanDaysType, DaysAssumption, FS_CardinalityType
        <4>4. /\ subs'[s] \in Rows /\ subs'[s] # None /\ subs'[s].plan = subs[s].plan
              /\ subs'[s].paidThrough = NextPaidThrough(subs[s], ev, days)
              /\ subs'[s].lastEventAt = Later(subs[s].lastEventAt, ev.at)
          BY <1>2, <4>1, <4>2, <4>3, AppliedType, NoneAssumption
        <4>5. ev.type # "payment_succeeded"
          BY <1>2, <2>1, <4>1
        <4>6. /\ subs'[s].paidThrough = subs[s].paidThrough
              /\ subs'[s].lastEventAt >= subs[s].lastEventAt
          BY <1>2, <4>2, <4>4, <4>5 DEF NextPaidThrough, Later, Rows, ProviderEvents, Never
        <4>7. AtMost(subs[s], Days[subs[s].plan], Cardinality(Payments(s)))
          BY <2>0, <4>1 DEF PeriodOK
        <4>8. AtMost(subs'[s], Days[subs[s].plan], Cardinality(Payments(s)))
          BY <4>2, <4>3, <4>4, <4>6, <4>7, AtMostMoved
        <4>9. QED
          BY <1>2, <2>0, <3>1, <4>1, <4>4, <4>6, <4>8, PeriodKept
      <3>4. QED
        BY <3>2, <3>3
    <2>2. CASE pays
      <3> DEFINE days == PlanDays(subs[s].plan)
      <3>1. /\ s \in Mapped(ev.ref) /\ rec.outcome = Outcome(s, subs[s], ev, days)
            /\ subs' = [subs EXCEPT ![s] = Applied(subs[s], ev, days)]
        BY <1>1, <2>2 DEF Processed
      <3>2. subs[s] # None /\ subs[s] \in Rows /\ subs[s].plan \in Plans
        BY <3>1 DEF Mapped, Inv, TypeOK, Rows
      <3>3. days \in Nat /\ days = Days[subs[s].plan]
        <4>1. days # 0
          BY <1>2, <2>2, <3>1 DEF Outcome
        <4>2. QED
          BY <3>2, <4>1, PlanDaysType
      <3>4. subs'[s] = Applied(subs[s], ev, days)
        BY <3>1 DEF Inv, TypeOK
      <3>5. /\ subs'[s] \in Rows /\ subs'[s] # None /\ subs'[s].plan = subs[s].plan
            /\ subs'[s].paidThrough = Later(subs[s].paidThrough, ev.at) + Days[subs[s].plan]
            /\ subs'[s].lastEventAt = Later(subs[s].lastEventAt, ev.at)
        <4>1. /\ subs'[s] \in Rows /\ subs'[s].plan = subs[s].plan
              /\ subs'[s].paidThrough = NextPaidThrough(subs[s], ev, days)
              /\ subs'[s].lastEventAt = Later(subs[s].lastEventAt, ev.at)
          BY <1>2, <3>2, <3>3, <3>4, AppliedType
        <4>2. NextPaidThrough(subs[s], ev, days) = Later(subs[s].paidThrough, ev.at) + days
          BY <1>2, <2>2 DEF NextPaidThrough
        <4>3. QED
          BY <3>3, <4>1, <4>2, NoneAssumption
      <3>6. QED
        BY <1>2, <2>0, <2>2, <3>2, <3>5, PaymentExtends
    <2>3. QED
      BY <2>1, <2>2
  <1>4. \A x \in EventIds : unlocked'[x] # None => ReadOK(x)'
    BY <1>2, <1>3, ReadKept
  <1>5. QED
    BY <1>3, <1>4 DEF PeriodInv

\* A delivery without a lock records no payment; what it writes has no longer a period than
\* the row it read.
LEMMA PeriodOfRecorded ==
  ASSUME Inv, Inv', PeriodInv, NEW e \in EventIds, Record(e)
  PROVE  PeriodInv'
  <1> DEFINE d == unlocked[e]
             ev == wire[e]
  <1>1. PICK rec \in EventRows :
          /\ rec.type = ev.type /\ rec.sub = d.sub
          /\ events' = [events EXCEPT ![e] = rec]
    BY RecordCases
  <1>2. /\ ev.type # "payment_succeeded" /\ events[e] = None /\ ev \in ProviderEvents
        /\ d \in Deliveries /\ d # None
        /\ unlocked' = [unlocked EXCEPT ![e] = None] /\ overwritten \subseteq overwritten'
    BY RecordCases DEF Record
  <1>3. \A s \in SubIds : /\ Payments(s)' = Payments(s)
                          /\ \A t \in Nat : Since(s, t)' = Since(s, t)
    BY <1>1, <1>2 DEF Payments, Since, Inv, TypeOK
  <1>4. ASSUME NEW s \in SubIds
        PROVE  PeriodOK(s)' /\ (subs[s] # None => subs'[s].plan = subs[s].plan)
    <2>0. IsFiniteSet(Payments(s)) /\ PeriodOK(s)
      BY DEF PeriodInv
    <2>1. CASE subs'[s] = subs[s]
      BY <1>2, <1>3, <2>0, <2>1, PeriodKept
    <2>2. CASE subs'[s] # subs[s]
      <3>1. d.outcome = "applied"
        BY <2>2, RecordCases
      <3>2. /\ d.sub \in SubIds /\ subs[d.sub] \in Rows /\ subs[d.sub] # None /\ d.row \in Rows
            /\ overwritten' = IF subs[d.sub] # d.row THEN overwritten \cup {d.sub} ELSE overwritten
        BY <3>1, RecordCases
      <3>3. PICK new \in Rows :
              /\ subs' = [subs EXCEPT ![d.sub] = new]
              /\ new # None /\ new.plan = subs[d.sub].plan
              /\ new.paidThrough = d.row.paidThrough
              /\ new.lastEventAt = Later(d.row.lastEventAt, ev.at)
        BY <3>1, RecordCases
      <3>4. d.sub = s /\ subs'[s] = new /\ d.sub # None
        BY <2>2, <3>2, <3>3, NoneAssumption DEF Inv, TypeOK
      <3>5. AtMost(d.row, Days[subs[s].plan], Cardinality(Payments(s)))
        BY <1>2, <3>4 DEF PeriodInv, ReadOK
      <3>6. /\ Days[subs[s].plan] \in Nat /\ Cardinality(Payments(s)) \in Nat
            /\ new.lastEventAt >= d.row.lastEventAt
        BY <1>2, <2>0, <3>2, <3>3, <3>4, DaysAssumption, FS_CardinalityType, RowTimes
        DEF Rows, Later, ProviderEvents
      <3> HIDE DEF d, ev
      <3>7. AtMost(new, Days[subs[s].plan], Cardinality(Payments(s)))
        BY <3>2, <3>3, <3>5, <3>6, AtMostMoved
      <3>8. s \notin overwritten' => subs'[s].paidThrough = subs[s].paidThrough
        BY <3>2, <3>3, <3>4
      <3>9. QED
        BY <1>2, <1>3, <2>0, <3>2, <3>3, <3>4, <3>7, <3>8, PeriodKept
    <2>3. QED
      BY <2>1, <2>2
  <1>5. ASSUME NEW x \in EventIds, unlocked'[x] # None PROVE ReadOK(x)'
    <2>1. unlocked'[x] = unlocked[x]
      BY <1>2, <1>5 DEF Inv, TypeOK
    <2>2. QED
      BY <1>3, <1>4, <1>5, <2>1, ReadKept
  <1>6. QED
    BY <1>3, <1>4, <1>5 DEF PeriodInv

\* The other steps record no event; a row they write keeps its period, or is new, and a
\* delivery that reads reads the row as it is.
LEMMA PeriodOfOthers ==
  ASSUME Inv, Inv', PeriodInv, UNCHANGED <<events, overwritten>>,
         \A s \in SubIds :
           \/ subs'[s] = subs[s]
           \/ subs[s] = None /\ subs'[s] # None /\ subs'[s].paidThrough = Never
           \/ /\ subs[s] # None /\ subs'[s] # None
              /\ subs'[s].plan = subs[s].plan /\ subs'[s].paidThrough = subs[s].paidThrough
              /\ subs'[s].lastEventAt = subs[s].lastEventAt,
         \A e \in EventIds : unlocked'[e] # None =>
           \/ unlocked'[e] = unlocked[e]
           \/ unlocked'[e].sub = None
           \/ /\ unlocked'[e].sub \in SubIds /\ subs'[unlocked'[e].sub] # None
              /\ unlocked'[e].row = subs'[unlocked'[e].sub]
  PROVE  PeriodInv'
  <1>1. \A s \in SubIds : /\ Payments(s)' = Payments(s)
                          /\ \A t \in Nat : Since(s, t)' = Since(s, t)
    BY DEF Payments, Since
  <1>2. ASSUME NEW s \in SubIds PROVE IsFiniteSet(Payments(s))' /\ PeriodOK(s)'
    <2>1. IsFiniteSet(Payments(s)) /\ PeriodOK(s)
      BY DEF PeriodInv
    <2>2. CASE \/ subs'[s] = subs[s]
               \/ subs[s] = None /\ subs'[s] # None /\ subs'[s].paidThrough = Never
      BY <1>1, <2>1, <2>2, PeriodKept
    <2>3. CASE /\ subs[s] # None /\ subs'[s] # None
               /\ subs'[s].plan = subs[s].plan /\ subs'[s].paidThrough = subs[s].paidThrough
               /\ subs'[s].lastEventAt = subs[s].lastEventAt
      <3>1. AtMost(subs[s], Days[subs[s].plan], Cardinality(Payments(s)))
        BY <2>1, <2>3 DEF PeriodOK
      <3>2. AtMost(subs'[s], Days[subs[s].plan], Cardinality(Payments(s)))
        BY <2>3, <3>1 DEF AtMost
      <3>3. QED
        BY <1>1, <2>1, <2>3, <3>2, PeriodKept
    <2>4. QED
      BY <2>2, <2>3
  <1>3. ASSUME NEW e \in EventIds, unlocked'[e] # None PROVE ReadOK(e)'
    <2>1. CASE unlocked'[e] = unlocked[e]
      BY <1>1, <1>3, <2>1, ReadKept
    <2>2. CASE unlocked'[e].sub = None
      BY <2>2 DEF ReadOK
    <2>3. CASE /\ unlocked'[e].sub \in SubIds /\ subs'[unlocked'[e].sub] # None
               /\ unlocked'[e].row = subs'[unlocked'[e].sub]
      BY <1>2, <2>3 DEF ReadOK, PeriodOK, AtMost
    <2>4. QED
      BY <1>3, <2>1, <2>2, <2>3
  <1>4. QED
    BY <1>2, <1>3 DEF PeriodInv

\* The steps that write the subscription table outside processEvent.
LEMMA RowsElsewhere ==
  ASSUME Inv, NEW r \in Requests, InsertPending(r) \/ Attach(r)
  PROVE  /\ UNCHANGED <<events, unlocked, overwritten>>
         /\ \A s \in SubIds :
           \/ subs'[s] = subs[s]
           \/ subs[s] = None /\ subs'[s] # None /\ subs'[s].paidThrough = Never
           \/ /\ subs[s] # None /\ subs'[s] # None
              /\ subs'[s].plan = subs[s].plan /\ subs'[s].paidThrough = subs[s].paidThrough
              /\ subs'[s].lastEventAt = subs[s].lastEventAt
  <1> DEFINE c == checkouts[r]
  <1>1. CASE InsertPending(r)
    <2> DEFINE row == [student |-> c.student, plan |-> c.plan, amount |-> c.amount,
                       ref |-> None, status |-> "pending",
                       paidThrough |-> Never, lastEventAt |-> Never]
    <2>1. c \in Checkouts /\ c.student \in Students /\ c.plan \in Plans /\ c.amount \in Amounts
      BY <1>1 DEF InsertPending, Inv, TypeOK, RequestsOK, InFlight
    <2>2. row \in Rows /\ row # None /\ row.paidThrough = Never
      BY <2>1, NoneAssumption DEF Rows, Statuses
    <2>3. UNCHANGED subs \/ \E s \in SubIds : subs[s] = None /\ subs' = [subs EXCEPT ![s] = row]
      BY <1>1 DEF InsertPending
    <2> HIDE DEF row
    <2>4. QED
      BY <1>1, <2>2, <2>3 DEF InsertPending, Inv, TypeOK
  <1>2. CASE Attach(r)
    <2> DEFINE row == [subs[c.sub] EXCEPT !.ref = c.ref]
    <2>1. /\ c \in Checkouts /\ c.sub \in SubIds /\ subs[c.sub] \in Rows /\ subs[c.sub] # None
          /\ c.ref \in Refs
      BY <1>2 DEF Attach, Inv, TypeOK, RequestsOK
    <2>2. /\ row \in Rows /\ row # None /\ row.plan = subs[c.sub].plan
          /\ row.paidThrough = subs[c.sub].paidThrough
          /\ row.lastEventAt = subs[c.sub].lastEventAt
      BY <2>1, NoneAssumption DEF Rows
    <2>3. UNCHANGED subs \/ subs' = [subs EXCEPT ![c.sub] = row]
      BY <1>2 DEF Attach
    <2> HIDE DEF row
    <2>4. QED
      BY <1>2, <2>1, <2>2, <2>3 DEF Attach, Inv, TypeOK
  <1>3. QED
    BY <1>1, <1>2

LEMMA PeriodNext ==
  ASSUME Inv, Inv', PeriodInv, [Next]_vars
  PROVE  PeriodInv'
  <1>1. ASSUME NEW e \in EventIds, ProcessEvent(e)
        PROVE  PeriodInv'
    BY <1>1, PeriodOfProcessed
  <1>2. ASSUME NEW r \in Requests, InsertPending(r) \/ Attach(r)
        PROVE  PeriodInv'
    <2>1. UNCHANGED <<events, unlocked, overwritten>>
      BY <1>2, RowsElsewhere
    <2>2. QED
      BY <1>2, <2>1, RowsElsewhere, PeriodOfOthers
  <1>3. CASE UNCHANGED <<subs, events, unlocked, overwritten>>
    BY <1>3, PeriodOfOthers
  <1>4. ASSUME NEW e \in EventIds, Overlook(e) \/ ReadRow(e) \/ RollBack(e)
        PROVE  PeriodInv'
    <2>1. UNCHANGED <<subs, events, overwritten>>
      BY <1>4 DEF Overlook, ReadRow, RollBack
    <2>2. \A x \in EventIds : unlocked'[x] # None =>
            \/ unlocked'[x] = unlocked[x]
            \/ unlocked'[x].sub = None
            \/ /\ unlocked'[x].sub \in SubIds /\ subs[unlocked'[x].sub] # None
               /\ unlocked'[x].row = subs[unlocked'[x].sub]
      BY <1>4 DEF Overlook, ReadRow, RollBack, Unread, Mapped, Inv, TypeOK
    <2>3. QED
      BY <2>1, <2>2, PeriodOfOthers
  <1>5. ASSUME NEW e \in EventIds, Record(e)
        PROVE  PeriodInv'
    BY <1>5, PeriodOfRecorded
  <1>6. QED
    <2>1. \/ \E e \in EventIds : ProcessEvent(e)
          \/ \E r \in Requests : InsertPending(r) \/ Attach(r)
          \/ \E e \in EventIds : Overlook(e) \/ ReadRow(e) \/ RollBack(e)
          \/ \E e \in EventIds : Record(e)
          \/ UNCHANGED <<subs, events, unlocked, overwritten>>
      BY DEF Next, vars, StartCheckout, FindPending, CreateSession, Abandon, Pays, Reports,
             Redeliver, Redeploy, Tick
    <2>2. QED
      BY <1>1, <1>2, <1>3, <1>4, <1>5, <2>1

\* Every row's paid period lies between what its payments buy and what they can buy at most.
THEOREM PeriodHolds == Spec => []PeriodInv
  <1>1. Init => PeriodInv
    <2> SUFFICES ASSUME Init, NEW s \in SubIds PROVE IsFiniteSet(Payments(s)) /\ PeriodOK(s)
      BY DEF PeriodInv, Init
    <2>1. Payments(s) = {} /\ subs[s] = None
      BY DEF Init, Payments
    <2>2. QED
      BY <2>1, FS_EmptySet DEF PeriodOK
  <1>2. Inv /\ Inv' /\ PeriodInv /\ [Next]_vars => PeriodInv'
    BY PeriodNext
  <1>3. QED
    BY <1>1, <1>2, InvHolds, PTL DEF Spec

\* Every payment buys its whole duration, whatever the order and the number of
\* deliveries, on every row that no delivery without a lock has written over.
THEOREM PaymentsBuyTheirTime == Spec => []PaidInFull
  <1>1. Inv /\ PeriodInv => PaidInFull
    <2> SUFFICES ASSUME Inv, PeriodInv, NEW s \in SubIds \ overwritten, subs[s] # None,
                        NEW e \in Payments(s)
                 PROVE  subs[s].paidThrough >=
                          events[e].at + Days[subs[s].plan] * Cardinality(Since(s, events[e].at))
      BY DEF PaidInFull
    <2>1. events[e].at \in Nat
      BY DEF Payments, Inv, TypeOK, EventRows
    <2>2. e \in Since(s, events[e].at)
      BY <2>1 DEF Since
    <2>3. QED
      BY <2>1, <2>2 DEF PeriodInv, PeriodOK
  <1>2. QED
    BY <1>1, InvHolds, PeriodHolds, PTL

\* Nothing but payments buys time, and none is counted twice, on any row.
THEOREM OnlyPaymentsBuyTime == Spec => []NothingUnpaid
  <1>1. PeriodInv => NothingUnpaid
    <2> SUFFICES ASSUME PeriodInv, NEW s \in SubIds, subs[s] # None
                 PROVE  IF Payments(s) = {} THEN subs[s].paidThrough = Never
                        ELSE subs[s].paidThrough <=
                               subs[s].lastEventAt + Days[subs[s].plan] * Cardinality(Payments(s))
      BY DEF NothingUnpaid
    <2>1. Cardinality(Payments(s)) = 0 <=> Payments(s) = {}
      BY FS_EmptySet DEF PeriodInv
    <2>2. QED
      BY <2>1 DEF PeriodInv, PeriodOK, AtMost
  <1>2. QED
    BY <1>1, PeriodHolds, PTL

-----------------------------------------------------------------------------
(* Every row lives one of the documented lives: Billing implements         *)
(* Agreement.                                                              *)

\* The step of the agreement that an applied event takes, if it takes any.
LEMMA AppliedMoves ==
  ASSUME NEW s, NEW row \in Rows, NEW ev \in ProviderEvents, NEW days \in Nat,
         row # None, Applied(row, ev, days) # None,
         Outcome(s, row, ev, days) = "applied",
         row.status = "pending" => row.lastEventAt = Never
  PROVE  LET from == Standing(row)
             to == Standing(Applied(row, ev, days))
             paid == Applied(row, ev, days).paidThrough
         IN
         \/ /\ ev.type = "payment_succeeded"
            /\ from \in {"open", "live", "ending"}
            /\ to = IF from = "ending" THEN "ending" ELSE "live"
            /\ paid \in Int /\ paid >= row.paidThrough + days /\ paid >= days
         \/ /\ ev.type # "payment_succeeded" /\ paid = row.paidThrough
            /\ \/ from = to
               \/ from \in {"open", "live"} /\ to = "ending"
               \/ from \in {"open", "live", "ending"} /\ to = "closed"
               \/ from \in {"open", "live", "ending", "closed"} /\ to = "revoked"
  <1> DEFINE new == Applied(row, ev, days)
  <1>1. /\ new.status = NextStatus(row, ev)
        /\ new.paidThrough = NextPaidThrough(row, ev, days)
    BY AppliedType
  <1>2. row.status \in Statuses /\ ev.type \in EventTypes /\ ev.at \in Nat
        /\ row.paidThrough \in Nat \cup {-1}
    BY DEF Rows, ProviderEvents, Never
  <1> HIDE DEF new
  <1>3. CASE ev.type = "payment_succeeded"
    <2>1. row.status \in {"pending", "active", "past_due", "cancelled"}
      BY <1>2, <1>3 DEF Outcome, Final, Terminal, Statuses
    <2>2. row.status = "pending" => ~Stale(row, ev)
      BY <1>2 DEF Stale, Never
    <2>3. new.status \in IF row.status = "cancelled" THEN {"cancelled"} ELSE {"active", "past_due"}
      BY <1>1, <1>3, <2>1, <2>2 DEF NextStatus
    <2>4. /\ new.paidThrough \in Int /\ new.paidThrough >= row.paidThrough + days
          /\ new.paidThrough >= days
      BY <1>1, <1>2, <1>3 DEF NextPaidThrough, Later
    <2>5. QED
      BY <1>3, <2>1, <2>3, <2>4 DEF Standing, new
  <1>4. CASE ev.type # "payment_succeeded"
    <2>1. new.paidThrough = row.paidThrough
      BY <1>1, <1>4 DEF NextPaidThrough
    <2>2. /\ row.status # "refunded"
          /\ \/ ev.type = "payment_refunded" /\ new.status = "refunded"
             \/ /\ ev.type = "payment_failed" /\ row.status \in {"pending", "active", "past_due"}
                /\ new.status = IF row.status = "pending" THEN "failed" ELSE "past_due"
             \/ ev.type = "payment_past_due" /\ row.status = "active" /\ new.status = "past_due"
             \/ /\ ev.type = "subscription_cancelled" /\ new.status = "cancelled"
                /\ row.status \in {"pending", "active", "past_due"}
             \/ /\ ev.type = "subscription_expired" /\ new.status = "expired"
                /\ row.status \in {"pending", "active", "past_due", "cancelled"}
      BY <1>1, <1>2, <1>4
      DEF Outcome, Final, Terminal, Movable, NextStatus, Statuses, EventTypes
    <2>3. QED
      BY <1>2, <1>4, <2>1, <2>2 DEF Standing, Statuses, new
  <1>5. QED
    BY <1>3, <1>4

Standings == [t \in SubIds |-> IF t \in overwritten THEN "lost" ELSE Standing(subs[t])]

Untils == [t \in SubIds |-> IF t \in overwritten \/ subs[t] = None THEN Never
                            ELSE subs[t].paidThrough]

\* What an agreement's variables see of a step that writes row s only: nothing, when the row
\* has been written over before.
LEMMA OneRowWritten ==
  ASSUME NEW s \in SubIds, NEW row, subs \in [SubIds -> Rows \cup {None}],
         subs' = [subs EXCEPT ![s] = row], UNCHANGED overwritten,
         NEW paid, paid = IF row = None THEN Never ELSE row.paidThrough
  PROVE  /\ s \in overwritten => Standings' = Standings /\ Untils' = Untils
         /\ s \notin overwritten =>
              /\ Standings' = [Standings EXCEPT ![s] = Standing(row)]
              /\ Untils' = [Untils EXCEPT ![s] = paid]
  <1>1. subs'[s] = row /\ \A t \in SubIds : t # s => subs'[t] = subs[t]
    OBVIOUS
  <1> DEFINE lives(t) == IF t \in overwritten THEN "lost" ELSE Standing(subs[t])
             ends(t) == IF t \in overwritten \/ subs[t] = None THEN Never ELSE subs[t].paidThrough
  <1>2. \A t \in SubIds : t # s => lives(t)' = lives(t) /\ ends(t)' = ends(t)
    BY <1>1
  <1>3. CASE s \in overwritten
    <2>1. lives(s)' = lives(s) /\ ends(s)' = ends(s)
      BY <1>3
    <2>2. \A t \in SubIds : lives(t)' = lives(t) /\ ends(t)' = ends(t)
      BY <1>2, <2>1
    <2>3. QED
      BY <1>3, <2>2 DEF Standings, Untils
  <1>4. CASE s \notin overwritten
    <2>1. lives(s)' = Standing(row) /\ ends(s)' = paid
      BY <1>1, <1>4
    <2> HIDE DEF lives, ends
    <2>2. /\ [t \in SubIds |-> lives(t)]' = [[t \in SubIds |-> lives(t)] EXCEPT ![s] = Standing(row)]
          /\ [t \in SubIds |-> ends(t)]' = [[t \in SubIds |-> ends(t)] EXCEPT ![s] = paid]
      BY <1>2, <2>1
    <2>3. QED
      BY <1>4, <2>2 DEF lives, ends, Standings, Untils
  <1>5. QED
    BY <1>3, <1>4

\* A checkout opens an agreement, or leaves what it sees alone.
LEMMA CheckoutSimulates ==
  ASSUME Inv, NEW r \in Requests, InsertPending(r) \/ Attach(r)
  PROVE  A!Next \/ UNCHANGED A!vars
  <1> DEFINE c == checkouts[r]
  <1>0. subs \in [SubIds -> Rows \cup {None}] /\ UNCHANGED overwritten
    BY DEF Inv, TypeOK, InsertPending, Attach
  <1>1. CASE InsertPending(r)
    <2> DEFINE row == [student |-> c.student, plan |-> c.plan, amount |-> c.amount,
                       ref |-> None, status |-> "pending",
                       paidThrough |-> Never, lastEventAt |-> Never]
    <2>1. c \in Checkouts /\ c.student \in Students /\ c.plan \in Plans /\ c.amount \in Amounts
      BY <1>1 DEF InsertPending, Inv, TypeOK, RequestsOK, InFlight
    <2>2. row # None /\ row.paidThrough = Never /\ row.status = "pending"
      BY <2>1, NoneAssumption DEF Rows, Statuses
    <2>3. UNCHANGED subs \/ \E s \in SubIds : subs[s] = None /\ subs' = [subs EXCEPT ![s] = row]
      BY <1>1 DEF InsertPending
    <2> HIDE DEF row
    <2>4. CASE UNCHANGED subs
      BY <1>0, <2>4 DEF A!vars
    <2>5. ASSUME NEW s \in SubIds, subs[s] = None, subs' = [subs EXCEPT ![s] = row],
                 s \notin overwritten
          PROVE  A!Open(s)
      <3>1. /\ Standings' = [Standings EXCEPT ![s] = Standing(row)]
            /\ Untils' = [Untils EXCEPT ![s] = Never]
        BY <1>0, <2>2, <2>5, OneRowWritten
      <3>2. /\ Standing(row) = "open" /\ Standings[s] = "none" /\ Untils[s] = Never
        BY <2>2, <2>5 DEF Standing, Standings, Untils
      <3>3. Untils' = Untils
        BY <3>1, <3>2 DEF Untils
      <3>4. QED
        BY <3>1, <3>2, <3>3 DEF A!Open, A!Move, Standings, Untils
    <2>6. ASSUME NEW s \in SubIds, subs' = [subs EXCEPT ![s] = row], s \in overwritten
          PROVE  UNCHANGED A!vars
      <3>1. Standings' = Standings /\ Untils' = Untils
        BY <1>0, <2>2, <2>6, OneRowWritten
      <3>2. QED
        BY <3>1 DEF A!vars, Standings, Untils
    <2>7. QED
      BY <2>3, <2>4, <2>5, <2>6 DEF A!Next
  <1>2. CASE Attach(r)
    <2> DEFINE row == [subs[c.sub] EXCEPT !.ref = c.ref]
    <2>1. /\ c \in Checkouts /\ c.sub \in SubIds /\ subs[c.sub] \in Rows /\ subs[c.sub] # None
          /\ c.ref \in Refs
      BY <1>2 DEF Attach, Inv, TypeOK, RequestsOK
    <2>2. /\ row # None /\ row.paidThrough = subs[c.sub].paidThrough
          /\ row.status = subs[c.sub].status
      BY <2>1, NoneAssumption DEF Rows
    <2>3. UNCHANGED subs \/ subs' = [subs EXCEPT ![c.sub] = row]
      BY <1>2 DEF Attach
    <2> HIDE DEF row
    <2>4. Standings' = Standings /\ Untils' = Untils
      <3>1. Standing(row) = Standing(subs[c.sub])
        BY <2>1, <2>2 DEF Standing, Rows, Statuses
      <3>2. \A t \in SubIds : /\ subs'[t] = subs[t] \/ (t = c.sub /\ subs'[t] = row)
        BY <1>0, <2>3
      <3>3. \A t \in SubIds : /\ Standing(subs'[t]) = Standing(subs[t])
                              /\ subs'[t] = None <=> subs[t] = None
                              /\ subs[t] # None => subs'[t].paidThrough = subs[t].paidThrough
        BY <2>1, <2>2, <3>1, <3>2
      <3>4. QED
        BY <1>0, <3>3 DEF Standings, Untils
    <2>5. QED
      BY <2>4 DEF A!vars, Standings, Untils
  <1>3. QED
    BY <1>1, <1>2

\* An event applied to the row as it stands takes a step of the agreement, or none.
LEMMA EventSimulates ==
  ASSUME Inv, NEW s \in SubIds, subs[s] # None, NEW ev \in ProviderEvents, NEW days \in Nat,
         Outcome(s, subs[s], ev, days) = "applied",
         ev.type = "payment_succeeded" => days \in {Days[p] : p \in Plans},
         subs' = [subs EXCEPT ![s] = Applied(subs[s], ev, days)], UNCHANGED overwritten
  PROVE  A!Next \/ UNCHANGED A!vars
  <1> DEFINE row == subs[s]
             new == Applied(row, ev, days)
             from == Standing(row)
             to == Standing(new)
             paid == new.paidThrough
  <1>1. /\ subs \in [SubIds -> Rows \cup {None}] /\ row \in Rows
        /\ row.status = "pending" => row.lastEventAt = Never
    BY DEF Inv, TypeOK, RowsOK, RowOK
  <1>2. new \in Rows /\ new # None
    BY <1>1, AppliedType, NoneAssumption
  <1>3. \/ /\ ev.type = "payment_succeeded"
           /\ from \in {"open", "live", "ending"}
           /\ to = IF from = "ending" THEN "ending" ELSE "live"
           /\ paid \in Int /\ paid >= row.paidThrough + days /\ paid >= days
        \/ /\ ev.type # "payment_succeeded" /\ paid = row.paidThrough
           /\ \/ from = to
              \/ from \in {"open", "live"} /\ to = "ending"
              \/ from \in {"open", "live", "ending"} /\ to = "closed"
              \/ from \in {"open", "live", "ending", "closed"} /\ to = "revoked"
    BY <1>1, <1>2, AppliedMoves
  <1>4. CASE s \in overwritten
    <2>1. Standings' = Standings /\ Untils' = Untils
      BY <1>1, <1>2, <1>4, OneRowWritten
    <2>2. QED
      BY <2>1 DEF A!vars, Standings, Untils
  <1>5. CASE s \notin overwritten
    <2>1. /\ Standings' = [Standings EXCEPT ![s] = to] /\ Untils' = [Untils EXCEPT ![s] = paid]
      BY <1>1, <1>2, <1>5, OneRowWritten
    <2>2. Standings[s] = from /\ Untils[s] = row.paidThrough
      BY <1>5 DEF Standings, Untils
    <2>3. Untils'[s] = paid
      BY <2>1 DEF Untils
    <2> HIDE DEF new, row, from, to, paid
    <2>7. CASE ev.type = "payment_succeeded"
      <3>2. Untils' = [Untils EXCEPT ![s] = Untils'[s]]
        BY <2>1, <2>3
      <3>3. Untils'[s] >= Untils[s] + days /\ Untils'[s] >= days
        BY <1>3, <2>2, <2>3, <2>7
      <3>4. /\ Standings[s] \in {"open", "live", "ending"}
            /\ Standings' = [Standings EXCEPT ![s] = IF @ = "ending" THEN "ending" ELSE "live"]
        BY <1>3, <2>1, <2>2, <2>7
      <3>5. A!Pay(s)
        BY <2>7, <3>2, <3>3, <3>4 DEF A!Pay, Standings, Untils
      <3>6. QED
        BY <3>5 DEF A!Next
    <2>8. CASE ev.type # "payment_succeeded"
      <3>1. Untils' = Untils
        BY <1>3, <2>1, <2>2, <2>8 DEF Untils
      <3>2. CASE from = to
        <4>1. Standings' = Standings
          BY <2>1, <2>2, <3>2 DEF Standings
        <4>2. QED
          BY <3>1, <4>1 DEF A!vars, Standings, Untils
      <3>3. CASE from \in {"open", "live"} /\ to = "ending"
        <4>1. A!End(s)
          BY <2>1, <2>2, <3>1, <3>3 DEF A!End, A!Move, Standings, Untils
        <4>2. QED
          BY <4>1 DEF A!Next
      <3>4. CASE from \in {"open", "live", "ending"} /\ to = "closed"
        <4>1. A!Close(s)
          BY <2>1, <2>2, <3>1, <3>4 DEF A!Close, A!Move, Standings, Untils
        <4>2. QED
          BY <4>1 DEF A!Next
      <3>5. CASE from \in {"open", "live", "ending", "closed"} /\ to = "revoked"
        <4>1. A!Revoke(s)
          BY <2>1, <2>2, <3>1, <3>5 DEF A!Revoke, A!Move, Standings, Untils
        <4>2. QED
          BY <4>1 DEF A!Next
      <3>6. QED
        BY <1>3, <2>8, <3>2, <3>3, <3>4, <3>5
    <2>9. QED
      BY <2>7, <2>8
  <1>6. QED
    BY <1>4, <1>5

\* A delivery under the lock decides on the row it writes.
LEMMA WebhookSimulates ==
  ASSUME Inv, NEW e \in EventIds, ProcessEvent(e)
  PROVE  A!Next \/ UNCHANGED A!vars
  <1>1. PICK rec \in EventRows : Processed(e, rec)
    BY ProcessCases
  <1> DEFINE s == rec.sub
             ev == wire[e]
             days == PlanDays(subs[s].plan)
  <1>2. CASE rec.outcome # "applied"
    BY <1>1, <1>2 DEF Processed, A!vars
  <1>3. CASE rec.outcome = "applied"
    <2>1. /\ s \in Mapped(ev.ref) /\ subs' = [subs EXCEPT ![s] = Applied(subs[s], ev, days)]
          /\ Outcome(s, subs[s], ev, days) = "applied" /\ ev # None /\ UNCHANGED overwritten
      BY <1>1, <1>3 DEF Processed
    <2>2. /\ s \in SubIds /\ subs[s] # None /\ subs[s].plan \in Plans /\ ev \in ProviderEvents
      BY <2>1 DEF Mapped, Inv, TypeOK, Rows
    <2>3. days \in Nat /\ (days # 0 => days = Days[subs[s].plan])
      BY <2>2, PlanDaysType
    <2>4. ev.type = "payment_succeeded" => days # 0
      BY <2>1 DEF Outcome
    <2>5. ev.type = "payment_succeeded" => days \in {Days[p] : p \in Plans}
      BY <2>2, <2>3, <2>4
    <2> HIDE DEF s, ev, days
    <2>6. QED
      BY <2>1, <2>2, <2>3, <2>5, EventSimulates
  <1>4. QED
    BY <1>2, <1>3

\* A delivery without a lock decides on the row it read: as long as that is the row it
\* writes, nothing is different; if not, the agreement is lost.
LEMMA RecordSimulates ==
  ASSUME Inv, NEW e \in EventIds, Record(e)
  PROVE  A!Next \/ UNCHANGED A!vars
  <1> DEFINE d == unlocked[e]
             s == d.sub
             ev == wire[e]
  <1>1. CASE d.outcome # "applied"
    <2>1. UNCHANGED <<subs, overwritten>>
      BY <1>1, RecordCases
    <2>2. QED
      BY <2>1 DEF A!vars
  <1>2. CASE d.outcome = "applied"
    <2>1. /\ s \in SubIds /\ subs[s] \in Rows /\ subs[s] # None
          /\ overwritten' = IF subs[s] # d.row THEN overwritten \cup {s} ELSE overwritten
          /\ subs[s] # d.row => subs[s].status # "pending"
          /\ ev.type # "payment_succeeded" /\ ev \in ProviderEvents
      BY <1>2, RecordCases
    <2>2. PICK new \in Rows :
            /\ subs' = [subs EXCEPT ![s] = new] /\ new # None
            /\ subs[s] = d.row =>
                 \E days \in Nat : /\ Outcome(s, subs[s], ev, days) = "applied"
                                  /\ new = Applied(subs[s], ev, days)
      BY <1>2, RecordCases
    <2>3. subs \in [SubIds -> Rows \cup {None}]
      BY DEF Inv, TypeOK
    <2> DEFINE read == d.row
    <2>4. CASE subs[s] = read
      <3>1. UNCHANGED overwritten
        BY <2>1, <2>4
      <3>2. PICK days \in Nat : /\ Outcome(s, subs[s], ev, days) = "applied"
                                /\ new = Applied(subs[s], ev, days)
        BY <2>2, <2>4
      <3> HIDE DEF d, s, ev, read
      <3>3. QED
        BY <2>1, <2>2, <3>1, <3>2, EventSimulates
    <2>5. CASE subs[s] # read /\ s \in overwritten
      <3>1. UNCHANGED overwritten
        BY <2>1, <2>5
      <3> HIDE DEF d, s, ev, read
      <3>2. Standings' = Standings /\ Untils' = Untils
        BY <2>1, <2>2, <2>3, <2>5, <3>1, OneRowWritten
      <3>3. QED
        BY <3>2 DEF A!vars, Standings, Untils
    <2>6. CASE subs[s] # read /\ s \notin overwritten
      <3>1. PICK t \in SubIds : t = s
        BY <2>1
      <3>2. overwritten' = overwritten \cup {t} /\ subs[t].status # "pending"
        BY <2>1, <2>6, <3>1
      <3> HIDE DEF d, s, ev, read
      <3>3. /\ Standings' = [Standings EXCEPT ![t] = "lost"]
            /\ Untils' = [Untils EXCEPT ![t] = Never]
        BY <2>1, <2>2, <2>3, <3>1, <3>2 DEF Standings, Untils
      <3>4. Standings[t] \notin {"none", "open", "lost"}
        BY <2>1, <2>6, <3>1, <3>2 DEF Standings, Standing, Rows, Statuses
      <3>5. A!Lose(t)
        BY <3>3, <3>4 DEF A!Lose, Standings, Untils, Never
      <3>6. QED
        BY <3>5 DEF A!Next
    <2>7. QED
      BY <2>4, <2>5, <2>6
  <1>3. QED
    BY <1>1, <1>2

\* The rows of Billing live the lives of Agreement: nothing reopens a closed or refunded
\* row, nothing renews a cancelled one, and time is bought by payments, until a delivery
\* without a lock writes over a row that has changed.
THEOREM AgreementsKept == Spec => KeepsAgreements
  <1>1. Init => A!Init
    BY DEF Init, A!Init, Standing, Never
  <1>2. Inv /\ [Next]_vars => [A!Next]_A!vars
    <2> SUFFICES ASSUME Inv, [Next]_vars PROVE A!Next \/ UNCHANGED A!vars
      OBVIOUS
    <2>1. \/ \E e \in EventIds : ProcessEvent(e)
          \/ \E r \in Requests : InsertPending(r) \/ Attach(r)
          \/ \E e \in EventIds : Record(e)
          \/ UNCHANGED <<subs, overwritten>>
      BY DEF Next, vars, StartCheckout, FindPending, CreateSession, Abandon, Pays, Reports,
             Redeliver, Redeploy, Tick, Overlook, ReadRow, RollBack
    <2>2. CASE UNCHANGED <<subs, overwritten>>
      BY <2>2 DEF A!vars
    <2>3. QED
      BY <2>1, <2>2, CheckoutSimulates, WebhookSimulates, RecordSimulates
  <1>3. QED
    BY <1>1, <1>2, InvHolds, PTL DEF Spec, KeepsAgreements, A!Spec

-----------------------------------------------------------------------------
(* Metering: how each request stands, its unit and the lock.              *)

\* What request r, in state q, has behind it at each statement.
ReqOK(r, q) ==
  /\ q.pc \in {"idle", "limit", "lock", "check", "insert", "denied"} => usage[r] = None
  /\ q.pc \in {"lock", "check", "insert"} \/ usage[r] # None => q.limit \in LimitValues
  /\ q.pc = "insert" => Room(q)
  /\ q.pc \in {"work", "settle"} => usage[r] # None /\ usage[r].status = "reserved"
  /\ q.pc \notin {"settle", "done", "crashed"} => q.outcome = "none"
  /\ q.pc = "settle" => q.outcome # "none"
  /\ usage[r] # None /\ usage[r].status # "reserved" => q.pc = "done"
  /\ q.outcome = "consumed" => usage[r] # None /\ usage[r].status # "released"
  /\ usage[r] # None /\ usage[r].status = "released" => q.outcome = "released"

ReqsOK == \A r \in Requests : ReqOK(r, reqs[r])

\* Only finitely many units have been taken.
TakenOK == IsFiniteSet({r \in Requests : usage[r] # None})

\* The inductive invariant.
MInv == MeteringTypeOK /\ LockHeld /\ ReqsOK /\ TakenOK

LEMMA UsedFinite ==
  ASSUME TakenOK, NEW p, NEW t
  PROVE  IsFiniteSet(Used(p, t)) /\ Cardinality(Used(p, t)) \in Nat
  <1>1. Used(p, t) \subseteq {r \in Requests : usage[r] # None}
    BY DEF Used
  <1>2. QED
    BY <1>1, FS_Subset, FS_CardinalityType DEF TakenOK

\* Units settled or given back leave the room that a waiting insert has seen.
LEMMA RoomKept ==
  ASSUME TakenOK, NEW q, q.limit \in LimitValues, Room(q),
         \A p \in Requests :
           usage'[p] # None /\ usage'[p].status \in {"reserved", "consumed"} =>
             /\ usage[p] # None /\ usage[p].status \in {"reserved", "consumed"}
             /\ usage'[p].at = usage[p].at
  PROVE  Room(q)'
  <1> DEFINE U == Used(q.limit.period, q.at)
  <1>1. U' \subseteq U
    BY DEF Used
  <1>2. Cardinality(U') <= Cardinality(U) /\ Cardinality(U') \in Nat /\ Cardinality(U) \in Nat
    BY <1>1, UsedFinite, FS_Subset, FS_CardinalityType
  <1>3. CASE q.limit.max = Unlimited
    BY <1>3 DEF Room
  <1>4. CASE q.limit.max # Unlimited
    <2>1. q.limit.max \in Nat /\ Cardinality(U) + 1 <= q.limit.max
      BY <1>4 DEF Room, LimitValues
    <2>2. Cardinality(U') + 1 <= q.limit.max
      BY <1>2, <2>1
    <2>3. QED
      BY <2>2 DEF Room
  <1>5. QED
    BY <1>3, <1>4

\* A step that moves one request to a state with what it needs behind it, and hands
\* the lock over accordingly, keeps the invariant.
LEMMA MoveMInv ==
  ASSUME MInv, NEW r \in Requests, NEW q \in RequestStates, ReqOK(r, q),
         reqs' = [reqs EXCEPT ![r] = q], UNCHANGED <<now, granted, usage>>,
         lock' \in Requests \cup {None},
         q.pc \in InTransaction <=> lock' = r,
         \A p \in Requests \ {r} : lock' = p <=> lock = p
  PROVE  MInv'
  <1>1. MeteringTypeOK'
    BY DEF MInv, MeteringTypeOK
  <1>2. LockHeld'
    BY DEF MInv, MeteringTypeOK, LockHeld
  <1>3. TakenOK'
    BY DEF MInv, TakenOK
  <1>4. ReqsOK'
    <2> SUFFICES ASSUME NEW p \in Requests PROVE ReqOK(p, reqs[p])'
      BY DEF ReqsOK
    <2>1. reqs'[p] = IF p = r THEN q ELSE reqs[p]
      BY DEF MInv, MeteringTypeOK
    <2>2. ReqOK(p, reqs'[p])
      BY <2>1 DEF MInv, ReqsOK
    <2>3. QED
      BY <2>2 DEF ReqOK, Room, Used
  <1>5. QED
    BY <1>1, <1>2, <1>3, <1>4 DEF MInv

LEMMA InitMInv ==
  ASSUME MeteringInit
  PROVE  MInv
  <1>1. MeteringTypeOK
    BY DEF MeteringInit, MeteringTypeOK, Unserved, RequestStates
  <1>2. LockHeld
    BY MeteringNoneAssumption DEF MeteringInit, LockHeld, Unserved, InTransaction
  <1>3. ReqsOK
    BY DEF MeteringInit, ReqsOK, ReqOK, Unserved
  <1>4. TakenOK
    <2>1. {r \in Requests : usage[r] # None} = {}
      BY DEF MeteringInit
    <2>2. QED
      BY <2>1, FS_EmptySet DEF TakenOK
  <1>5. QED
    BY <1>1, <1>2, <1>3, <1>4 DEF MInv

\* The statements that leave the table alone.
LEMMA QueryMInv ==
  ASSUME MInv, NEW r \in Requests,
         Decide(r) \/ ReadLimit(r) \/ Lock(r) \/ Check(r) \/ Work(r) \/ Crash(r)
  PROVE  MInv'
  <1> DEFINE q == reqs[r]
             To(pc) == [q EXCEPT !.pc = pc]
  <1>1. /\ q \in RequestStates /\ ReqOK(r, q) /\ reqs \in [Requests -> RequestStates]
        /\ lock \in Requests \cup {None} /\ None \notin Requests
        /\ q.pc \in InTransaction <=> lock = r
        /\ now \in Nat
    BY MeteringNoneAssumption DEF MInv, MeteringTypeOK, ReqsOK, LockHeld
  <1>2. ASSUME NEW pc \in {"idle"} \cup Underway \cup Ended
        PROVE  /\ To(pc) \in RequestStates /\ To(pc).pc = pc /\ To(pc).limit = q.limit
               /\ To(pc).at = q.at /\ To(pc).outcome = q.outcome
    BY <1>1 DEF RequestStates
  <1>3. CASE Decide(r)
    <2> DEFINE pc == IF granted = {} THEN "denied" ELSE "limit"
    <2>1. reqs' = [reqs EXCEPT ![r] = To(pc)] /\ q.pc = "idle" /\ UNCHANGED <<now, granted, usage, lock>>
      BY <1>1, <1>3 DEF Decide
    <2>2. pc \in {"denied", "limit"} /\ pc \in {"idle"} \cup Underway \cup Ended
      BY DEF Underway, Ended
    <2> HIDE DEF pc, To
    <2>3. ReqOK(r, To(pc))
      BY <1>1, <1>2, <2>1, <2>2 DEF ReqOK
    <2>4. QED
      BY <1>1, <1>2, <2>1, <2>2, <2>3, MoveMInv DEF InTransaction
  <1>4. CASE ReadLimit(r)
    <2>1. CASE reqs' = [reqs EXCEPT ![r].pc = "denied"]
      <3>1. reqs' = [reqs EXCEPT ![r] = To("denied")] /\ q.pc = "limit"
            /\ UNCHANGED <<now, granted, usage, lock>>
        BY <1>1, <1>4, <2>1 DEF ReadLimit
      <3>2. "denied" \in {"idle"} \cup Underway \cup Ended
        BY DEF Ended
      <3> HIDE DEF To
      <3>3. ReqOK(r, To("denied"))
        BY <1>1, <1>2, <3>1, <3>2 DEF ReqOK
      <3>4. QED
        BY <1>1, <1>2, <3>1, <3>2, <3>3, MoveMInv DEF InTransaction
    <2>2. ASSUME NEW limit \in LimitValues,
                 reqs' = [reqs EXCEPT ![r].pc = "lock", ![r].limit = limit, ![r].at = now]
          PROVE  MInv'
      <3> DEFINE next == [q EXCEPT !.pc = "lock", !.limit = limit, !.at = now]
      <3>1. reqs' = [reqs EXCEPT ![r] = next] /\ q.pc = "limit" /\ UNCHANGED <<now, granted, usage, lock>>
        BY <1>1, <1>4, <2>2 DEF ReadLimit
      <3>2. /\ next \in RequestStates /\ next.pc = "lock" /\ next.limit = limit
            /\ next.outcome = q.outcome
        BY <1>1 DEF RequestStates, Underway
      <3> HIDE DEF next
      <3>3. ReqOK(r, next)
        BY <1>1, <3>1, <3>2 DEF ReqOK
      <3>4. QED
        BY <1>1, <3>1, <3>2, <3>3, MoveMInv DEF InTransaction
    <2>3. \A limit \in MostGenerous({Limits[s] : s \in granted}) : limit \in LimitValues
      BY LimitsAssumption DEF MostGenerous, MInv, MeteringTypeOK
    <2>4. QED
      BY <1>4, <2>1, <2>2, <2>3 DEF ReadLimit
  <1>5. CASE Lock(r)
    <2>1. reqs' = [reqs EXCEPT ![r] = To("check")] /\ q.pc = "lock" /\ lock = None /\ lock' = r
          /\ UNCHANGED <<now, granted, usage>>
      BY <1>1, <1>5 DEF Lock
    <2>2. "check" \in {"idle"} \cup Underway \cup Ended
      BY DEF Underway, InTransaction
    <2> HIDE DEF To
    <2>3. ReqOK(r, To("check"))
      BY <1>1, <1>2, <2>1, <2>2 DEF ReqOK
    <2>4. QED
      BY <1>1, <1>2, <2>1, <2>2, <2>3, MoveMInv DEF InTransaction
  <1>6. CASE Check(r)
    <2>1. CASE Room(q) /\ reqs' = [reqs EXCEPT ![r].pc = "insert"] /\ UNCHANGED lock
      <3>1. reqs' = [reqs EXCEPT ![r] = To("insert")] /\ q.pc = "check"
            /\ UNCHANGED <<now, granted, usage, lock>>
        BY <1>1, <1>6, <2>1 DEF Check
      <3>2. "insert" \in {"idle"} \cup Underway \cup Ended
        BY DEF Underway, InTransaction
      <3>3. Room(To("insert"))
        BY <1>1, <1>2, <2>1, <3>2 DEF Room
      <3> HIDE DEF To
      <3>4. ReqOK(r, To("insert"))
        BY <1>1, <1>2, <3>1, <3>2, <3>3 DEF ReqOK
      <3>5. QED
        BY <1>1, <1>2, <3>1, <3>2, <3>4, MoveMInv DEF InTransaction
    <2>2. CASE reqs' = [reqs EXCEPT ![r] = [Unserved EXCEPT !.pc = "denied"]] /\ lock' = None
      <3> DEFINE next == [Unserved EXCEPT !.pc = "denied"]
      <3>1. next \in RequestStates /\ next.pc = "denied" /\ next.outcome = "none"
        BY DEF Unserved, RequestStates, Underway, InTransaction, Ended
      <3>2. reqs' = [reqs EXCEPT ![r] = next] /\ q.pc = "check" /\ lock = r
            /\ UNCHANGED <<now, granted, usage>>
        BY <1>1, <1>6, <2>2 DEF Check, InTransaction
      <3> HIDE DEF next
      <3>3. ReqOK(r, next)
        BY <1>1, <3>1, <3>2 DEF ReqOK
      <3>4. QED
        BY <1>1, <2>2, <3>1, <3>2, <3>3, MoveMInv DEF InTransaction
    <2>3. QED
      BY <1>6, <2>1, <2>2 DEF Check
  <1>7. CASE Work(r)
    <2> SUFFICES ASSUME NEW outcome \in {"consumed", "released"},
                        reqs' = [reqs EXCEPT ![r].pc = "settle", ![r].outcome = outcome]
                 PROVE  MInv'
      BY <1>7 DEF Work
    <2> DEFINE next == [q EXCEPT !.pc = "settle", !.outcome = outcome]
    <2>1. reqs' = [reqs EXCEPT ![r] = next] /\ q.pc = "work" /\ UNCHANGED <<now, granted, usage, lock>>
      BY <1>1, <1>7 DEF Work
    <2>2. /\ next \in RequestStates /\ next.pc = "settle" /\ next.limit = q.limit
          /\ next.outcome = outcome
      BY <1>1 DEF RequestStates, Underway
    <2> HIDE DEF next
    <2>3. ReqOK(r, next)
      BY <1>1, <2>1, <2>2 DEF ReqOK
    <2>4. QED
      BY <1>1, <2>1, <2>2, <2>3, MoveMInv DEF InTransaction
  <1>8. CASE Crash(r)
    <2> DEFINE next == IF usage[r] = None THEN [Unserved EXCEPT !.pc = "crashed"] ELSE To("crashed")
    <2>1. reqs' = [reqs EXCEPT ![r] = next] /\ q.pc \in Underway
          /\ lock' = (IF lock = r THEN None ELSE lock) /\ UNCHANGED <<now, granted, usage>>
      BY <1>1, <1>8 DEF Crash
    <2>2. "crashed" \in {"idle"} \cup Underway \cup Ended
      BY DEF Ended
    <2>3. /\ next \in RequestStates /\ next.pc = "crashed"
          /\ usage[r] = None => next.outcome = "none"
          /\ usage[r] # None => next.limit = q.limit /\ next.outcome = q.outcome
      BY <1>1, <2>2 DEF Unserved, RequestStates
    <2> HIDE DEF next
    <2>4. ReqOK(r, next)
      BY <1>1, <2>1, <2>3 DEF ReqOK, Underway, InTransaction
    <2>5. QED
      BY <1>1, <2>1, <2>3, <2>4, MoveMInv DEF InTransaction
  <1>9. QED
    BY <1>3, <1>4, <1>5, <1>6, <1>7, <1>8

\* The insert happens under the lock: no other request stands between its check and
\* its own insert.
LEMMA InsertMInv ==
  ASSUME MInv, NEW r \in Requests, Insert(r)
  PROVE  MInv'
  <1> DEFINE row == [at |-> reqs[r].at, status |-> "reserved"]
             next == [reqs[r] EXCEPT !.pc = "work"]
  <1>1. row \in UsageRows /\ row # None /\ row.status = "reserved"
    BY MeteringNoneAssumption DEF UsageRows, MInv, MeteringTypeOK, RequestStates
  <1>2. /\ usage' = [usage EXCEPT ![r] = row] /\ reqs' = [reqs EXCEPT ![r] = next]
        /\ lock' = None /\ UNCHANGED <<now, granted>> /\ reqs[r].pc = "insert"
    BY DEF Insert, MInv, MeteringTypeOK
  <1>3. lock = r /\ \A p \in Requests \ {r} : reqs[p].pc \notin InTransaction
    BY <1>2 DEF MInv, LockHeld, InTransaction
  <1>4. /\ next \in RequestStates /\ next.pc = "work" /\ next.limit = reqs[r].limit
        /\ next.outcome = "none" /\ next.limit \in LimitValues
    BY <1>2 DEF MInv, MeteringTypeOK, ReqsOK, ReqOK, RequestStates, Underway
  <1> HIDE DEF row, next
  <1>5. MeteringTypeOK'
    BY <1>1, <1>2, <1>4 DEF MInv, MeteringTypeOK
  <1>6. LockHeld'
    BY <1>2, <1>3, <1>4, MeteringNoneAssumption DEF MInv, MeteringTypeOK, LockHeld, InTransaction
  <1>7. ReqsOK'
    <2> SUFFICES ASSUME NEW p \in Requests PROVE ReqOK(p, reqs[p])'
      BY DEF ReqsOK
    <2>1. CASE p = r
      <3>1. reqs'[p] = next /\ usage'[p] = row
        BY <1>2, <2>1 DEF MInv, MeteringTypeOK
      <3>2. QED
        BY <1>1, <1>4, <3>1 DEF ReqOK
    <2>2. CASE p # r
      <3>1. reqs'[p] = reqs[p] /\ usage'[p] = usage[p] /\ reqs[p].pc # "insert"
        BY <1>2, <1>3, <2>2 DEF MInv, MeteringTypeOK, InTransaction
      <3>2. ReqOK(p, reqs[p])
        BY DEF MInv, ReqsOK
      <3>3. QED
        BY <3>1, <3>2 DEF ReqOK
    <2>3. QED
      BY <2>1, <2>2
  <1>8. TakenOK'
    <2>1. {p \in Requests : usage[p] # None}' \subseteq {p \in Requests : usage[p] # None} \cup {r}
      BY <1>2 DEF MInv, MeteringTypeOK
    <2>2. IsFiniteSet({p \in Requests : usage[p] # None} \cup {r})
      BY FS_AddElement DEF MInv, TakenOK
    <2>3. QED
      BY <2>1, <2>2, FS_Subset DEF TakenOK
  <1>9. QED
    BY <1>5, <1>6, <1>7, <1>8 DEF MInv

\* What a settlement does to the row, when it does anything.
LEMMA SettleEffect ==
  ASSUME MInv, NEW r \in Requests, Settle(r)
  PROVE  /\ usage[r] \in UsageRows /\ usage[r] # None /\ usage[r].status = "reserved"
         /\ reqs[r].pc = "settle" /\ reqs[r].outcome \in {"consumed", "released"}
         /\ reqs' = [reqs EXCEPT ![r].pc = "done"] /\ UNCHANGED <<now, granted, lock>>
         /\ \/ UNCHANGED usage
            \/ usage' = [usage EXCEPT ![r] = [usage[r] EXCEPT !.status = reqs[r].outcome]]
  <1>1. /\ reqs[r].pc = "settle" /\ reqs[r] \in RequestStates /\ ReqOK(r, reqs[r])
        /\ usage \in [Requests -> UsageRows \cup {None}]
    BY DEF Settle, MInv, MeteringTypeOK, ReqsOK
  <1>2. usage[r] \in UsageRows /\ usage[r] # None /\ usage[r].status = "reserved"
    BY <1>1 DEF ReqOK
  <1>3. reqs[r].outcome \in {"consumed", "released"}
    BY <1>1 DEF ReqOK, RequestStates
  <1>4. QED
    BY <1>1, <1>2, <1>3 DEF Settle

LEMMA SettleMInv ==
  ASSUME MInv, NEW r \in Requests, Settle(r)
  PROVE  MInv'
  <1> DEFINE row == [usage[r] EXCEPT !.status = reqs[r].outcome]
             next == [reqs[r] EXCEPT !.pc = "done"]
  <1>1. /\ usage[r] \in UsageRows /\ usage[r] # None /\ usage[r].status = "reserved"
        /\ reqs[r].pc = "settle" /\ reqs[r].outcome \in {"consumed", "released"}
        /\ reqs' = [reqs EXCEPT ![r] = next] /\ UNCHANGED <<now, granted, lock>>
        /\ UNCHANGED usage \/ usage' = [usage EXCEPT ![r] = row]
    BY SettleEffect DEF MInv, MeteringTypeOK
  <1>2. /\ row \in UsageRows /\ row # None /\ row.status = reqs[r].outcome
        /\ row.at = usage[r].at
    BY <1>1, MeteringNoneAssumption DEF UsageRows
  <1>3. /\ next \in RequestStates /\ next.pc = "done" /\ next.limit = reqs[r].limit
        /\ next.outcome = reqs[r].outcome /\ next.limit \in LimitValues
    BY <1>1 DEF MInv, MeteringTypeOK, ReqsOK, ReqOK, RequestStates, Ended
  <1> HIDE DEF row, next
  <1>4. MeteringTypeOK'
    BY <1>1, <1>2, <1>3 DEF MInv, MeteringTypeOK
  <1>5. LockHeld'
    BY <1>1, <1>3 DEF MInv, MeteringTypeOK, LockHeld, InTransaction
  <1>6. \A p \in Requests : /\ usage'[p] # None <=> usage[p] # None
                            /\ usage[p] # None => usage'[p].at = usage[p].at
                            /\ p # r => usage'[p] = usage[p] /\ reqs'[p] = reqs[p]
    BY <1>1, <1>2 DEF MInv, MeteringTypeOK
  <1>7. ReqsOK'
    <2> SUFFICES ASSUME NEW p \in Requests PROVE ReqOK(p, reqs[p])'
      BY DEF ReqsOK
    <2>1. CASE p = r
      <3>1. reqs'[p] = next /\ usage'[p] \in {usage[p], row}
        BY <1>1, <2>1 DEF MInv, MeteringTypeOK
      <3>2. QED
        BY <1>1, <1>2, <1>3, <2>1, <3>1 DEF ReqOK
    <2>2. CASE p # r
      <3>1. ReqOK(p, reqs[p])
        BY DEF MInv, ReqsOK
      <3>2. reqs[p].pc = "insert" => Room(reqs[p])'
        <4> SUFFICES ASSUME reqs[p].pc = "insert" PROVE Room(reqs[p])'
          OBVIOUS
        <4> DEFINE q == reqs[p]
        <4>1. q.limit \in LimitValues /\ Room(q)
          BY <3>1 DEF ReqOK
        <4>2. \A u \in Requests :
                usage'[u] # None /\ usage'[u].status \in {"reserved", "consumed"} =>
                  /\ usage[u] # None /\ usage[u].status \in {"reserved", "consumed"}
                  /\ usage'[u].at = usage[u].at
          BY <1>1, <1>6
        <4>3. q' = q
          BY <1>6, <2>2
        <4> HIDE DEF q
        <4>4. QED
          BY <4>1, <4>2, <4>3, RoomKept DEF MInv, Room, q
      <3>3. QED
        BY <1>6, <2>2, <3>1, <3>2 DEF ReqOK
    <2>3. QED
      BY <2>1, <2>2
  <1>8. TakenOK'
    <2>1. {p \in Requests : usage[p] # None}' = {p \in Requests : usage[p] # None}
      BY <1>6
    <2>2. QED
      BY <2>1 DEF MInv, TakenOK
  <1>9. QED
    BY <1>4, <1>5, <1>7, <1>8 DEF MInv

LEMMA NextMInv ==
  ASSUME MInv, [MeteringNext]_meteringVars
  PROVE  MInv'
  <1>1. CASE UNCHANGED <<usage, lock, reqs>> /\ now' \in Nat /\ granted' \in SUBSET Sources
    BY <1>1 DEF MInv, MeteringTypeOK, LockHeld, ReqsOK, ReqOK, Room, Used, TakenOK
  <1>2. ASSUME NEW r \in Requests, Serve(r) \/ Crash(r)
        PROVE  MInv'
    BY <1>2, QueryMInv, InsertMInv, SettleMInv DEF Serve
  <1>3. ASSUME NEW sources \in SUBSET Sources, Regrant(sources)
        PROVE  MInv'
    BY <1>1, <1>3 DEF Regrant, MInv, MeteringTypeOK
  <1>4. CASE TimePasses
    BY <1>1, <1>4 DEF TimePasses, MInv, MeteringTypeOK
  <1>5. CASE UNCHANGED meteringVars
    BY <1>1, <1>5 DEF meteringVars, MInv, MeteringTypeOK
  <1>6. QED
    BY <1>2, <1>3, <1>4, <1>5 DEF MeteringNext

\* The inductive invariant holds of every behaviour of concurrent metered requests.
THEOREM MInvHolds == MeteringSpec => []MInv
  <1>1. MeteringInit => MInv
    BY InitMInv
  <1>2. MInv /\ [MeteringNext]_meteringVars => MInv'
    BY NextMInv
  <1>3. QED
    BY <1>1, <1>2, PTL DEF MeteringSpec

\* Requests, rows and the lock keep their types.
THEOREM MeteringTypeCorrect == MeteringSpec => []MeteringTypeOK
  <1>1. MInv => MeteringTypeOK
    BY DEF MInv
  <1>2. QED
    BY <1>1, MInvHolds, PTL

\* The advisory lock is held exactly between the statements of its transaction: no
\* crash leaves it behind.
THEOREM LockIsTheTransactions == MeteringSpec => []LockHeld
  <1>1. MInv => LockHeld
    BY DEF MInv
  <1>2. QED
    BY <1>1, MInvHolds, PTL

\* A delivered unit goes on counting, whatever became of its settlement; a unit is
\* given back only for a request that delivered nothing.
THEOREM DeliveredUnitsCount == MeteringSpec => []DeliveredCounts
  <1>1. MInv => DeliveredCounts
    BY DEF MInv, ReqsOK, ReqOK, DeliveredCounts
  <1>2. QED
    BY <1>1, MInvHolds, PTL

-----------------------------------------------------------------------------
(* Refinement.                                                             *)

LEMMA EntriesKept ==
  ASSUME MInv, NEW p \in Requests, usage'[p] = usage[p],
         usage[p] # None => reqs'[p].limit = reqs[p].limit
  PROVE  Entry(p)' = Entry(p)
  <1>1. CASE usage[p] = None
    BY <1>1 DEF Entry
  <1>2. CASE usage[p] # None
    BY <1>2 DEF Entry
  <1>3. QED
    BY <1>1, <1>2

\* A statement that leaves the table alone leaves the ledger alone.
LEMMA QueryStutters ==
  ASSUME MInv, [MeteringNext]_meteringVars, UNCHANGED usage
  PROVE  UNCHANGED [r \in Requests |-> Entry(r)]
  <1>1. \A p \in Requests : usage[p] # None => reqs'[p].limit = reqs[p].limit
    <2> SUFFICES ASSUME NEW p \in Requests, usage[p] # None
                 PROVE  reqs'[p].limit = reqs[p].limit
      OBVIOUS
    <2>1. ReqOK(p, reqs[p]) /\ reqs \in [Requests -> RequestStates]
      BY DEF MInv, ReqsOK, MeteringTypeOK
    <2>2. reqs[p].pc \notin {"idle", "limit", "lock", "check", "insert"}
      BY <2>1 DEF ReqOK
    <2>3. ASSUME NEW r \in Requests, Serve(r) \/ Crash(r)
          PROVE  reqs'[p].limit = reqs[p].limit
      <3>1. CASE p # r
        BY <2>1, <2>3, <3>1
        DEF Serve, Decide, ReadLimit, Lock, Check, Insert, Work, Settle, Crash
      <3>2. CASE p = r
        <4>1. CASE Work(r) \/ Settle(r)
          BY <2>1, <3>2, <4>1 DEF Work, Settle, RequestStates
        <4>2. CASE Crash(r)
          BY <2>1, <3>2, <4>2 DEF Crash, RequestStates
        <4>3. QED
          BY <2>2, <2>3, <3>2, <4>1, <4>2 DEF Serve, Decide, ReadLimit, Lock, Check, Insert
      <3>3. QED
        BY <3>1, <3>2
    <2>4. CASE UNCHANGED reqs
      BY <2>4
    <2>5. QED
      BY <2>3, <2>4 DEF MeteringNext, Regrant, TimePasses, meteringVars
  <1>2. \A p \in Requests : Entry(p)' = Entry(p)
    BY <1>1, EntriesKept
  <1>3. QED
    BY <1>2

Ledger == [r \in Requests |-> Entry(r)]

\* FiniteSets is instantiated with Quota.
LEMMA SameCardinality ==
  ASSUME NEW S PROVE Q!Cardinality(S) = Cardinality(S)
  BY DEF Q!Cardinality, Cardinality

\* The insert takes the unit within the limit: the rows that count after it are the
\* rows its check counted, and its own.
LEMMA InsertTakes ==
  ASSUME MInv, NEW r \in Requests, Insert(r)
  PROVE  Q!Take(r)
  <1> DEFINE row == [at |-> reqs[r].at, status |-> "reserved"]
             limit == reqs[r].limit
             at == reqs[r].at
             Counted == Used(limit.period, at)
  <1>1. /\ usage[r] = None /\ limit \in LimitValues /\ Room(reqs[r])
        /\ usage \in [Requests -> UsageRows \cup {None}] /\ TakenOK
    BY DEF Insert, MInv, MeteringTypeOK, ReqsOK, ReqOK
  <1>2. row # None /\ row.status = "reserved" /\ row.at = at
    BY MeteringNoneAssumption DEF UsageRows, MInv, MeteringTypeOK, RequestStates
  <1>3. /\ usage' = [usage EXCEPT ![r] = row]
        /\ \A p \in Requests : reqs'[p].limit = reqs[p].limit
    BY DEF Insert, MInv, MeteringTypeOK
  <1>4. Ledger[r].state = "free"
    BY <1>1 DEF Ledger, Entry
  <1>5. Ledger'[r] = [state |-> "held", at |-> at, limit |-> limit]
    BY <1>1, <1>2, <1>3 DEF Ledger, Entry
  <1>6. \A p \in Requests \ {r} : Ledger'[p] = Ledger[p]
    BY <1>1, <1>3, EntriesKept DEF Ledger
  <1>7. Q!Within(Ledger', limit, at)
    <2> SUFFICES ASSUME limit.max # Unlimited
                 PROVE  Cardinality(Q!Used(Ledger', limit.period, at)) <= limit.max
      BY SameCardinality DEF Q!Within
    <2>1. \A p \in Requests : Ledger[p].state \in Q!Counting =>
             /\ usage[p] # None /\ usage[p].status \in {"reserved", "consumed"}
             /\ Ledger[p].at = usage[p].at
      BY <1>1 DEF Ledger, Entry, Q!Counting, UsageRows
    <2>2. Q!Used(Ledger', limit.period, at) \subseteq Counted \cup {r}
      BY <1>6, <2>1 DEF Q!Used, Used
    <2>3. IsFiniteSet(Counted) /\ Cardinality(Counted) \in Nat
      BY <1>1, UsedFinite
    <2>4. IsFiniteSet(Counted \cup {r}) /\ Cardinality(Counted \cup {r}) <= Cardinality(Counted) + 1
          /\ Cardinality(Counted \cup {r}) \in Nat
      <3> HIDE DEF Counted
      <3>1. /\ IsFiniteSet(Counted \cup {r})
            /\ Cardinality(Counted \cup {r})
                 = IF r \in Counted THEN Cardinality(Counted) ELSE Cardinality(Counted) + 1
        BY <2>3, FS_AddElement
      <3>2. QED
        BY <2>3, <3>1
    <2>5. /\ Cardinality(Q!Used(Ledger', limit.period, at)) <= Cardinality(Counted \cup {r})
          /\ Cardinality(Q!Used(Ledger', limit.period, at)) \in Nat
      BY <2>2, <2>4, FS_Subset, FS_CardinalityType
    <2>6. limit.max \in Nat /\ Cardinality(Counted) + 1 <= limit.max
      BY <1>1 DEF Room, LimitValues
    <2> HIDE DEF Counted, limit, at
    <2>7. QED
      BY <2>3, <2>4, <2>5, <2>6
  <1>8. QED
    BY <1>4, <1>5, <1>6, <1>7 DEF Q!Take, Ledger

\* A settlement keeps the unit or gives it back, or changes nothing.
LEMMA SettleSettles ==
  ASSUME MInv, NEW r \in Requests, Settle(r)
  PROVE  Q!Settle(r) \/ UNCHANGED Ledger
  <1> DEFINE row == [usage[r] EXCEPT !.status = reqs[r].outcome]
  <1>1. /\ usage[r] \in UsageRows /\ usage[r] # None /\ usage[r].status = "reserved"
        /\ reqs[r].outcome \in {"consumed", "released"}
        /\ \A p \in Requests : reqs'[p].limit = reqs[p].limit
        /\ usage \in [Requests -> UsageRows \cup {None}]
    <2>1. reqs \in [Requests -> RequestStates] /\ usage \in [Requests -> UsageRows \cup {None}]
      BY DEF MInv, MeteringTypeOK
    <2>2. \A p \in Requests : reqs'[p].limit = reqs[p].limit
      BY <2>1 DEF Settle, RequestStates
    <2>3. QED
      BY <2>1, <2>2, SettleEffect
  <1>2. CASE UNCHANGED usage
    BY <1>1, <1>2, EntriesKept DEF Ledger
  <1>3. CASE usage' = [usage EXCEPT ![r] = row]
    <2>1. row # None /\ row.status = reqs[r].outcome /\ row.at = usage[r].at
      BY <1>1, MeteringNoneAssumption DEF UsageRows
    <2>2. usage'[r] = row /\ \A p \in Requests \ {r} : usage'[p] = usage[p]
      BY <1>1, <1>3
    <2> HIDE DEF row
    <2> DEFINE state == IF reqs[r].outcome = "consumed" THEN "kept" ELSE "returned"
    <2>3. Entry(r) = [state |-> "held", at |-> usage[r].at, limit |-> reqs[r].limit]
      BY <1>1 DEF Entry
    <2>4. Entry(r)' = [state |-> state, at |-> usage[r].at, limit |-> reqs[r].limit]
      BY <1>1, <2>1, <2>2 DEF Entry
    <2>5. Entry(r)' = [Entry(r) EXCEPT !.state = state]
      BY <2>3, <2>4
    <2>6. \A p \in Requests \ {r} : Entry(p)' = Entry(p)
      BY <1>1, <2>2, EntriesKept
    <2>7. Ledger' = [Ledger EXCEPT ![r].state = state]
      BY <2>5, <2>6 DEF Ledger
    <2>8. Ledger[r].state = "held" /\ state \in {"kept", "returned"}
      BY <2>3 DEF Ledger
    <2> HIDE DEF state
    <2>9. QED
      BY <2>7, <2>8 DEF Q!Settle, Ledger
  <1>4. QED
    BY <1>2, <1>3, SettleEffect

\* Concurrent requests, crashes and changes of plan move the usage table only as the
\* ledger of Quota allows: every unit taken within its limit, and settled once.
THEOREM QuotaKept == MeteringSpec => KeepsQuota
  <1>1. MeteringInit => Q!Init
    BY DEF MeteringInit, Q!Init, Entry
  <1>2. MInv /\ [MeteringNext]_meteringVars => [Q!Next]_Ledger
    <2> SUFFICES ASSUME MInv, [MeteringNext]_meteringVars PROVE [Q!Next]_Ledger
      OBVIOUS
    <2>1. CASE UNCHANGED usage
      BY <2>1, QueryStutters DEF Ledger
    <2>2. ASSUME NEW r \in Requests, Insert(r)
          PROVE  [Q!Next]_Ledger
      BY <2>2, InsertTakes DEF Q!Next
    <2>3. ASSUME NEW r \in Requests, Settle(r)
          PROVE  [Q!Next]_Ledger
      BY <2>3, SettleSettles DEF Q!Next
    <2>4. QED
      BY <2>1, <2>2, <2>3
      DEF MeteringNext, Serve, Decide, ReadLimit, Lock, Check, Work, Crash, Regrant, TimePasses, meteringVars
  <1>3. QED
    BY <1>1, <1>2, MInvHolds, PTL DEF MeteringSpec, KeepsQuota, Q!Spec, Ledger

=============================================================================
