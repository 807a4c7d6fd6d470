\* Two attempts at one order (one of the wrong amount), two requests at a time,
\* resends at any moment, one fault of any kind.
SPECIFICATION FairSpec
CONSTANTS
  o1 = o1
  Orders = {o1}
  Payments = {p1, p2}
  OrderOf <- MCOrderOf
  Mismatched = {p2}
  Handlers = {h1, h2}
  EarlyResend = TRUE
  Faults = {"crash", "db", "release", "reply"}
  MaxFaults = 1
  NoPayment = NoPayment
  NoEvent = NoEvent
PROPERTIES CreditSafety CapturedGetsCredited
CHECK_DEADLOCK FALSE
