---------------------------- MODULE Subscription ----------------------------
(***************************************************************************)
(* The pure transition function of a subscription row: what one verified   *)
(* provider event does to it, and when the row grants access.  Translated  *)
(* from packages/domain/billing/src/subscription.ts.                       *)
(*                                                                         *)
(* Time is a natural number.  A null timestamp is Never = -1, which every  *)
(* comparison orders before all times, as the code's ms(null) = -Infinity. *)
(* A plan's duration is a positive number of time units and 0 stands for   *)
(* the null plan of a plan id the catalog no longer lists.                 *)
(***************************************************************************)
EXTENDS Commerce

Never == -1

Statuses == {"pending", "active", "past_due", "cancelled",
             "expired", "refunded", "failed"}

EventTypes == {"payment_succeeded", "payment_failed", "payment_past_due",
               "subscription_cancelled", "subscription_expired",
               "payment_refunded"}

Terminal == {"refunded", "failed", "expired"}

Outcomes == {"applied", "ignored_stale", "ignored_terminal",
             "ignored_invalid_transition", "rejected_amount_mismatch",
             "rejected_reference_mismatch", "rejected_unknown_plan",
             "ignored_unknown_reference"}

Later(a, b) == IF a >= b THEN a ELSE b

Stale(s, e) == e.at < s.lastEventAt

\* Mutant of Final: a refund is terminal only for events that are not payments.
FinalUnlessPaid(s, e) ==
  s.status \in Terminal /\ e.type \notin {"payment_refunded", "payment_succeeded"}

\* `refunded` ends everything; the other terminal statuses still take a refund.
Final(s, e) ==
  \/ s.status = "refunded"
  \/ s.status \in Terminal /\ e.type # "payment_refunded"

\* Mutant of Movable: past_due is taken before any payment.
MovableFromPending(type) ==
  CASE type = "payment_past_due"       -> {"active", "pending"}
    [] type = "payment_failed"         -> {"pending", "active", "past_due"}
    [] type = "subscription_cancelled" -> Statuses \ (Terminal \cup {"cancelled"})
    [] type = "subscription_expired"   -> Statuses \ Terminal

\* The statuses an event that is neither a payment nor a refund may change.
Movable(type) ==
  CASE type = "payment_failed"         -> {"pending", "active", "past_due"}
    [] type = "payment_past_due"       -> {"active"}
    [] type = "subscription_cancelled" -> Statuses \ (Terminal \cup {"cancelled"})
    [] type = "subscription_expired"   -> Statuses \ Terminal

\* What processing event e does with row s of subscription id, whose plan lasts
\* `days` (0: the plan is unknown).
Outcome(id, s, e, days) ==
  IF e.echo \notin {None, id}            THEN "rejected_reference_mismatch"
  ELSE IF Final(s, e)                     THEN "ignored_terminal"
  ELSE IF e.type = "payment_refunded"     THEN "applied"
  ELSE IF e.type = "payment_succeeded"    THEN
         IF e.amount # s.amount           THEN "rejected_amount_mismatch"
         ELSE IF days = 0                 THEN "rejected_unknown_plan"
         ELSE "applied"
  ELSE IF Stale(s, e)                     THEN "ignored_stale"
  ELSE IF s.status \in Movable(e.type)    THEN "applied"
  ELSE "ignored_invalid_transition"

\* Mutant of NextStatus: a payment reactivates whatever it finds.
NextStatusRevives(s, e) ==
  CASE e.type = "payment_refunded"       -> "refunded"
    [] e.type = "payment_succeeded"      -> "active"
    [] e.type = "payment_failed"         ->
         IF s.status = "pending" THEN "failed" ELSE "past_due"
    [] e.type = "payment_past_due"       -> "past_due"
    [] e.type = "subscription_cancelled" -> "cancelled"
    [] e.type = "subscription_expired"   -> "expired"

NextStatus(s, e) ==
  CASE e.type = "payment_refunded"       -> "refunded"
    [] e.type = "payment_succeeded"      ->
         IF s.status = "cancelled" \/ Stale(s, e) THEN s.status ELSE "active"
    [] e.type = "payment_failed"         ->
         IF s.status = "pending" THEN "failed" ELSE "past_due"
    [] e.type = "payment_past_due"       -> "past_due"
    [] e.type = "subscription_cancelled" -> "cancelled"
    [] e.type = "subscription_expired"   -> "expired"

\* Mutant of NextPaidThrough: the period runs from the payment, not from the
\* end of the period already paid for.
PaidFromEvent(s, e, days) ==
  IF e.type = "payment_succeeded" THEN Later(s.paidThrough, e.at + days)
                                  ELSE s.paidThrough

\* A payment extends the period already paid for; any other event leaves it.
NextPaidThrough(s, e, days) ==
  IF e.type = "payment_succeeded" THEN Later(s.paidThrough, e.at) + days
                                  ELSE s.paidThrough

\* The row after an applied event.
Applied(s, e, days) ==
  [s EXCEPT !.status      = NextStatus(s, e),
            !.paidThrough = NextPaidThrough(s, e, days),
            !.lastEventAt = Later(s.lastEventAt, e.at)]

\* Both in subscription.ts: periodRemaining and grantsAccess.
GrantsAccess(s, t) ==
  s.status \in {"active", "cancelled", "past_due"} /\ t < s.paidThrough

=============================================================================
