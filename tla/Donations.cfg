SPECIFICATION FairSpec
CONSTANTS
  Users = {u1, u2}
  Orders = {o1, o2}
  Handlers = {h1, h2}
  MaxFaults = 1
  NoUser = NoUser
  NoEvent = NoEvent
INVARIANTS TypeOK CreditedOnce SupporterHasPaid PaidOrderKnown
PROPERTY PaidIsCredited
CHECK_DEADLOCK FALSE
