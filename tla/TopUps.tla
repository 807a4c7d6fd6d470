------------------------------- MODULE TopUps -------------------------------
(***************************************************************************)
(* Buying credits (src/core/marketplace/marketplace_service.ts): a user    *)
(* pays a Razorpay order, and the payment is credited to the wallet by     *)
(* whoever hears of it first -- the checkout callback (verifyTopup) or a   *)
(* webhook (BillingService.handleWebhook), on any server, any number of    *)
(* times.  Each await of creditPayment() is a step of its own: the order's *)
(* status is read, the payment captured, the wallet credited and the order *)
(* marked paid, and between two of them anything else may happen.          *)
(*                                                                         *)
(* Razorpay is external: a payment attempt is authorized or fails (and may *)
(* be authorized late), at most one payment of an order is captured, and   *)
(* every change is announced by an event that is sent until a server       *)
(* answers with success -- and sometimes once more.                        *)
(***************************************************************************)
EXTENDS Integers, FiniteSets

CONSTANTS
  Orders,       \* credit orders
  Payments,     \* payment attempts, as Razorpay numbers them
  OrderOf,      \* OrderOf[p]: the order p is made for
  Mismatched,   \* attempts whose amount or currency is not the order's
  Handlers,     \* requests being served at one time (bounds the model)
  EarlyResend,  \* may an event be sent again while it is still being handled?
  Faults,       \* what may go wrong: a subset of FaultKinds
  MaxFaults,    \* how often (bounds the model)
  NoPayment, NoEvent

\* "crash": the server dies; "db": a query fails; "release": the query that
\* gives a claimed event back fails; "reply": Razorpay's reply is lost.
FaultKinds == {"crash", "db", "release", "reply"}

Events == Payments \X {"authorized", "captured", "failed"}

ASSUME TopUpAssumption ==
  /\ OrderOf \in [Payments -> Orders]
  /\ Mismatched \subseteq Payments
  /\ NoPayment \notin Payments /\ NoEvent \notin Events
  /\ EarlyResend \in BOOLEAN /\ Faults \subseteq FaultKinds /\ MaxFaults \in Nat

VARIABLES
  \* the database
  order,    \* market_orders.status, "none" before the order is made
  paidBy,   \* market_orders.payment_id
  credits,  \* how many ledger rows credit each payment
  claimed,  \* billing_events: webhook events taken
  \* Razorpay
  pay,      \* status of each payment attempt
  sent,     \* events announced
  acked,    \* events answered with success
  \* requests
  pc,       \* progress of each request
  payment,  \* the payment it is about
  seen,     \* the payment's status as this request knows it
  event,    \* the webhook event it handles; NoEvent for a checkout callback
  faults,   \* faults so far
  \* history
  lost      \* events whose handler died, could not give them back, or was still
            \* at work when a resend was answered with success

db == <<order, paidBy, credits, claimed>>
razorpay == <<pay, sent, acked, lost>>
request == <<pc, payment, seen, event>>
vars == <<db, razorpay, request, faults>>

Init ==
  /\ order = [o \in Orders |-> "none"]
  /\ paidBy = [o \in Orders |-> NoPayment]
  /\ credits = [p \in Payments |-> 0]
  /\ claimed = {}
  /\ pay = [p \in Payments |-> "none"]
  /\ sent = {} /\ acked = {}
  /\ pc = [h \in Handlers |-> "idle"]
  /\ payment = [h \in Handlers |-> NoPayment]
  /\ seen = [h \in Handlers |-> "none"]
  /\ event = [h \in Handlers |-> NoEvent]
  /\ faults = 0 /\ lost = {}

Goto(h, label) == pc' = [pc EXCEPT ![h] = label]

Fault(kind) ==
  /\ kind \in Faults /\ faults < MaxFaults
  /\ faults' = faults + 1

-----------------------------------------------------------------------------
\* Razorpay: the user tries to pay; a failed attempt may be authorized late.
Announce(p, status) ==
  /\ pay' = [pay EXCEPT ![p] = status]
  /\ sent' = sent \union {<<p, status>>}

Attempt(p) ==
  /\ order[OrderOf[p]] # "none"
  /\ \/ pay[p] = "none" /\ Announce(p, "failed")
     \/ pay[p] \in {"none", "failed"} /\ Announce(p, "authorized")
  /\ UNCHANGED <<db, acked, lost, request, faults>>

\* At most one payment of an order is ever captured.
Capturable(p) ==
  /\ pay[p] = "authorized"
  /\ \A q \in Payments : OrderOf[q] = OrderOf[p] => pay[q] # "captured"

\* Accounts with auto-capture.
AutoCapture(p) ==
  /\ Capturable(p)
  /\ Announce(p, "captured")
  /\ UNCHANGED <<db, acked, lost, request, faults>>

-----------------------------------------------------------------------------
\* startTopup(): the order is made at Razorpay and stored; only then does the
\* user get to know it.
StartTopup(o) ==
  /\ order[o] = "none"
  /\ order' = [order EXCEPT ![o] = "created"]
  /\ UNCHANGED <<paidBy, credits, claimed, razorpay, request, faults>>

\* A request about payment p enters creditPayment() knowing p's status.
Enter(h, p, status, e) ==
  /\ Goto(h, "order")
  /\ payment' = [payment EXCEPT ![h] = p]
  /\ seen' = [seen EXCEPT ![h] = status]
  /\ event' = [event EXCEPT ![h] = e]

\* verifyTopup(): the checkout succeeded; the payment is fetched as it is now.
Verify(h, p) ==
  /\ pc[h] = "idle" /\ pay[p] \in {"authorized", "captured"}
  /\ Enter(h, p, pay[p], NoEvent)
  /\ UNCHANGED <<db, razorpay, faults>>

\* handleWebhook(): an event id is taken once; every later delivery of it is
\* answered "duplicate", with success.
Webhook(h, e) ==
  /\ pc[h] = "idle" /\ e \in sent
  /\ EarlyResend \/ \A g \in Handlers : event[g] # e
  /\ \/ /\ e \in claimed
        /\ acked' = acked \union {e}
        /\ lost' = IF \E g \in Handlers : event[g] = e THEN lost \union {e} ELSE lost
        /\ UNCHANGED <<claimed, request>>
     \/ /\ e \notin claimed
        /\ claimed' = claimed \union {e}
        /\ Enter(h, e[1], e[2], e)
        /\ UNCHANGED <<acked, lost>>
  /\ UNCHANGED <<order, paidBy, credits, pay, sent, faults>>

\* Faulty variant, for mutation checks: every error of the credit is swallowed.
DbFaultSwallowed(h) ==
  /\ Fault("db")
  /\ pc[h] \in {"order", "failed", "apply", "mark", "done"}
  /\ Goto(h, IF pc[h] = "apply" THEN "mark" ELSE "throw")
  /\ UNCHANGED <<db, razorpay, payment, seen, event>>

\* A query of the request fails.
DbFault(h) ==
  /\ Fault("db")
  /\ pc[h] \in {"order", "failed", "apply", "mark", "done"}
  /\ Goto(h, "throw")
  /\ UNCHANGED <<db, razorpay, payment, seen, event>>

\* creditPayment(): read the order and decide what is left to do.
ReadOrder(h) ==
  /\ pc[h] = "order"
  /\ \/ order[OrderOf[payment[h]]] = "paid" /\ Goto(h, "done")
     \/ /\ order[OrderOf[payment[h]]] # "paid"
        /\ \/ payment[h] \in Mismatched /\ Goto(h, "throw")
           \/ /\ payment[h] \notin Mismatched
              /\ Goto(h, CASE seen[h] = "authorized" -> "capture"
                           [] seen[h] = "captured" -> "apply"
                           [] seen[h] = "failed" -> "failed")
  /\ UNCHANGED <<db, razorpay, payment, seen, event, faults>>

\* Capture an authorized payment; any error leaves the status as it was, and
\* the request ends with "hasn't completed yet".
Capture(h) ==
  LET p == payment[h] IN
  /\ pc[h] = "capture"
  /\ \/ /\ Capturable(p)
        /\ Announce(p, "captured")
        /\ \/ /\ seen' = [seen EXCEPT ![h] = "captured"]
              /\ Goto(h, "apply")
              /\ UNCHANGED faults
           \/ /\ Fault("reply")
              /\ Goto(h, "throw")
              /\ UNCHANGED seen
     \/ /\ ~Capturable(p)
        /\ Goto(h, "throw")
        /\ UNCHANGED <<pay, sent, seen, faults>>
  /\ UNCHANGED <<db, acked, lost, payment, event>>

\* Faulty variant: the status is written without looking at it.
MarkFailedUnguarded(h) ==
  /\ pc[h] = "failed"
  /\ order' = [order EXCEPT ![OrderOf[payment[h]]] = "failed"]
  /\ Goto(h, "throw")
  /\ UNCHANGED <<paidBy, credits, claimed, razorpay, payment, seen, event, faults>>

\* markOrderStatus(id, "failed"), guarded by status <> 'paid'.
MarkFailed(h) ==
  LET o == OrderOf[payment[h]] IN
  /\ pc[h] = "failed"
  /\ order' = [order EXCEPT ![o] = IF @ = "paid" THEN @ ELSE "failed"]
  /\ Goto(h, "throw")
  /\ UNCHANGED <<paidBy, credits, claimed, razorpay, payment, seen, event, faults>>

\* Faulty variant: no unique index on the payment.
ApplyAgain(h) ==
  /\ pc[h] = "apply"
  /\ credits' = [credits EXCEPT ![payment[h]] = @ + 1]
  /\ Goto(h, "mark")
  /\ UNCHANGED <<order, paidBy, claimed, razorpay, payment, seen, event, faults>>

\* MarketRepository.apply(): wallet and ledger row in one statement; the unique
\* index refuses a second row of the payment, which is taken as done.
Apply(h) ==
  LET p == payment[h] IN
  /\ pc[h] = "apply"
  /\ credits' = [credits EXCEPT ![p] = IF @ = 0 THEN 1 ELSE @]
  /\ Goto(h, "mark")
  /\ UNCHANGED <<order, paidBy, claimed, razorpay, payment, seen, event, faults>>

\* markOrderPaid(), guarded by status <> 'paid'.
MarkPaid(h) ==
  LET o == OrderOf[payment[h]] IN
  /\ pc[h] = "mark"
  /\ order' = [order EXCEPT ![o] = "paid"]
  /\ paidBy' = [paidBy EXCEPT ![o] = IF order[o] = "paid" THEN @ ELSE payment[h]]
  /\ Goto(h, "done")
  /\ UNCHANGED <<credits, claimed, razorpay, payment, seen, event, faults>>

\* The request is over.
Leave(h) ==
  /\ Goto(h, "idle")
  /\ payment' = [payment EXCEPT ![h] = NoPayment]
  /\ seen' = [seen EXCEPT ![h] = "none"]
  /\ event' = [event EXCEPT ![h] = NoEvent]

\* The request succeeded.
Done(h) ==
  /\ pc[h] = "done"
  /\ Leave(h)
  /\ acked' = IF event[h] = NoEvent THEN acked ELSE acked \union {event[h]}
  /\ UNCHANGED <<db, pay, sent, lost, faults>>

\* Faulty variant: the event is not given back.
ThrowKeepsClaim(h) ==
  /\ pc[h] = "throw"
  /\ Leave(h)
  /\ UNCHANGED <<db, razorpay, faults>>

\* The request failed; a webhook first gives its event back ("let Razorpay's
\* retry run it again"), and a failure to do so is swallowed.
Throw(h) ==
  /\ pc[h] = "throw"
  /\ Leave(h)
  /\ \/ claimed' = claimed \ {event[h]} /\ UNCHANGED <<faults, lost>>
     \/ event[h] # NoEvent /\ Fault("release") /\ lost' = lost \union {event[h]} /\ UNCHANGED claimed
  /\ UNCHANGED <<order, paidBy, credits, pay, sent, acked>>

\* The server dies in the middle of the request.
Crash(h) ==
  /\ Fault("crash")
  /\ pc[h] # "idle"
  /\ Leave(h)
  /\ lost' = IF event[h] = NoEvent THEN lost ELSE lost \union {event[h]}
  /\ UNCHANGED <<db, pay, sent, acked>>

Step(h) ==
  \/ ReadOrder(h) \/ Capture(h) \/ MarkFailed(h) \/ Apply(h) \/ MarkPaid(h)
  \/ Done(h) \/ Throw(h)

Next ==
  \/ \E o \in Orders : StartTopup(o)
  \/ \E p \in Payments : Attempt(p) \/ AutoCapture(p)
  \/ \E h \in Handlers :
       \/ \E p \in Payments : Verify(h, p)
       \/ \E e \in Events : Webhook(h, e)
       \/ Step(h) \/ DbFault(h) \/ Crash(h)

Spec == Init /\ [][Next]_vars

Captured(p) == <<p, "captured">>

\* Every request is served to its end, and Razorpay sends an event until it is
\* answered with success (servers always have room for one more request); only
\* the news of a capture is needed.
Fairness ==
  /\ \A h \in Handlers : WF_vars(Step(h))
  /\ \A p \in Payments : SF_vars(Captured(p) \notin acked /\ \E h \in Handlers : Webhook(h, Captured(p)))

FairSpec == Spec /\ Fairness

-----------------------------------------------------------------------------
\* The shape of the state.
TypeOK ==
  /\ order \in [Orders -> {"none", "created", "failed", "paid"}]
  /\ paidBy \in [Orders -> Payments \union {NoPayment}]
  /\ credits \in [Payments -> Nat]
  /\ claimed \subseteq Events /\ sent \subseteq Events /\ acked \subseteq Events
  /\ lost \subseteq Events
  /\ pay \in [Payments -> {"none", "authorized", "captured", "failed"}]
  /\ pc \in [Handlers -> {"idle", "order", "capture", "failed", "apply", "mark",
                          "done", "throw"}]
  /\ payment \in [Handlers -> Payments \union {NoPayment}]
  /\ seen \in [Handlers -> {"none", "authorized", "captured", "failed"}]
  /\ event \in [Handlers -> Events \union {NoEvent}]
  /\ faults \in 0 .. MaxFaults

\* "Crediting happens once": however often callback and webhooks race, repeat
\* and fail, an order's credits are added at most once, and for money captured.
CreditedOnce ==
  \A p \in Payments :
    credits[p] > 0 =>
      /\ credits[p] = 1 /\ pay[p] = "captured"
      /\ \A q \in Payments : OrderOf[q] = OrderOf[p] /\ credits[q] > 0 => q = p

\* An order is marked paid only after its payment is in the ledger: a request
\* that dies in between can always be repeated.
PaidIsCredited ==
  \A o \in Orders :
    order[o] = "paid" =>
      /\ paidBy[o] # NoPayment
      /\ OrderOf[paidBy[o]] = o /\ credits[paidBy[o]] = 1

\* A paid order stays paid, by the same payment, also when the news of an
\* earlier failed attempt arrives late.
PaidForGood ==
  [][\A o \in Orders :
       order[o] = "paid" => order'[o] = "paid" /\ paidBy'[o] = paidBy[o]]_vars

\* Money and orders agree at every moment: each order is credited at most once,
\* marked paid only after that, and stays paid.
CreditSafety == [](CreditedOnce /\ PaidIsCredited) /\ PaidForGood

\* "Your credits will appear as soon as it does": captured money is credited in
\* the end, though queries and replies fail and are retried -- unless the news
\* of it was lost: its handler died or could not give it back, or a resend was
\* answered with success while a handler still worked on it.
CapturedGetsCredited ==
  \A p \in Payments \ Mismatched : pay[p] = "captured" ~> credits[p] = 1 \/ <<p, "captured">> \in lost
=============================================================================
