CONSTANTS
  None = None
  r1 = r1
  r2 = r2
  base = base
  plan = plan
  Requests = {r1, r2}
  Sources = {base, plan}
  Limits <- OneUnit
  Length <- Calendar
  Unlimited = Unlimited
  MaxTime = 2
SPECIFICATION FairSpec
CHECK_DEADLOCK FALSE
INVARIANT DeliveredCounts
PROPERTIES KeepsQuota Answered
