----------------------------- MODULE BillingProofs -----------------------------
(***************************************************************************)
(* Proofs about what is paid for, for any number of orders, payments,      *)
(* subscriptions, calls and faults: TopUps, Subscriptions, then Wallet.    *)
(***************************************************************************)
EXTENDS TopUps, Subscriptions, Wallet, SequenceFacts

(***************************************************************************)
(* The invariant: whoever believes a payment captured is right, whoever is *)
(* about to mark an order paid has its payment in the ledger, the ledger   *)
(* only holds captured payments, once each, and an order has at most one   *)
(* captured payment.                                                       *)
(***************************************************************************)
CreditInv ==
  /\ \A p \in Payments : <<p, "captured">> \in sent => pay[p] = "captured"
  /\ \A h \in Handlers :
       /\ pc[h] # "idle" => payment[h] \in Payments
       /\ pc[h] = "order" => seen[h] # "none"
       /\ seen[h] = "captured" =>
            payment[h] \in Payments /\ pay[payment[h]] = "captured"
       /\ pc[h] = "apply" => seen[h] = "captured"
       /\ pc[h] = "mark" => credits[payment[h]] = 1
  /\ \A p, q \in Payments :
       OrderOf[p] = OrderOf[q] /\ pay[p] = "captured" /\ pay[q] = "captured" => p = q
  /\ \A p \in Payments : credits[p] > 0 => credits[p] = 1 /\ pay[p] = "captured"
  /\ PaidIsCredited

\* The initial state.
LEMMA TopUpInit == Init => TypeOK /\ CreditInv
BY TopUpAssumption DEF Init, TypeOK, CreditInv, PaidIsCredited

\* Every step keeps the shape of the state.
LEMMA TopUpType == TypeOK /\ CreditInv /\ [Next]_vars => TypeOK'
<1> SUFFICES ASSUME TypeOK, CreditInv, [Next]_vars PROVE TypeOK'
  OBVIOUS
<1> USE TopUpAssumption
    DEF TypeOK, CreditInv, Events, db, razorpay, request, Goto, Fault, Announce
<1>1. ASSUME NEW o \in Orders, StartTopup(o) PROVE TypeOK'
  BY <1>1 DEF StartTopup
<1>2. ASSUME NEW p \in Payments, Attempt(p) \/ AutoCapture(p) PROVE TypeOK'
  BY <1>2 DEF Attempt, AutoCapture
<1>3. ASSUME NEW h \in Handlers, NEW p \in Payments, Verify(h, p) PROVE TypeOK'
  BY <1>3 DEF Verify, Enter
<1>4. ASSUME NEW h \in Handlers, NEW e \in Events, Webhook(h, e) PROVE TypeOK'
  BY <1>4 DEF Webhook, Enter
<1>5. ASSUME NEW h \in Handlers, ReadOrder(h) PROVE TypeOK'
  BY <1>5 DEF ReadOrder
<1>6. ASSUME NEW h \in Handlers, Capture(h) PROVE TypeOK'
  BY <1>6 DEF Capture
<1>7. ASSUME NEW h \in Handlers, MarkFailed(h) PROVE TypeOK'
  BY <1>7 DEF MarkFailed
<1>8. ASSUME NEW h \in Handlers, Apply(h) PROVE TypeOK'
  BY <1>8 DEF Apply
<1>9. ASSUME NEW h \in Handlers, MarkPaid(h) PROVE TypeOK'
  BY <1>9 DEF MarkPaid
<1>10. ASSUME NEW h \in Handlers, Done(h) PROVE TypeOK'
  BY <1>10 DEF Done, Leave
<1>11. ASSUME NEW h \in Handlers, Throw(h) \/ Crash(h) PROVE TypeOK'
  <2>1. event[h] \in Events \union {NoEvent}
    OBVIOUS
  <2>2. CASE Throw(h) /\ lost' = lost
    BY <2>2, <1>11 DEF Throw, Leave
  <2>3. CASE Throw(h) /\ lost' = lost \union {event[h]} /\ event[h] # NoEvent
    BY <2>1, <2>3 DEF Throw, Leave
  <2>4. CASE Crash(h)
    BY <2>1, <2>4 DEF Crash, Leave
  <2> QED
    BY <1>11, <2>2, <2>3, <2>4 DEF Throw
<1>12. ASSUME NEW h \in Handlers, DbFault(h) PROVE TypeOK'
  BY <1>12 DEF DbFault
<1>13. CASE UNCHANGED vars
  BY <1>13 DEF vars
<1>14. QED
  BY <1>1, <1>2, <1>3, <1>4, <1>5, <1>6, <1>7, <1>8, <1>9, <1>10, <1>11, <1>12,
     <1>13 DEF Next, Step

\* Every step keeps the invariant.
LEMMA TopUpStep == TypeOK /\ CreditInv /\ [Next]_vars => CreditInv'
<1> SUFFICES ASSUME TypeOK, CreditInv, [Next]_vars PROVE CreditInv'
  OBVIOUS
<1> USE TopUpAssumption
    DEF TypeOK, CreditInv, PaidIsCredited, Events, db, razorpay, request, Goto,
        Fault, Announce
<1>1. ASSUME NEW o \in Orders, StartTopup(o) PROVE CreditInv'
  BY <1>1 DEF StartTopup
<1>2. ASSUME NEW p \in Payments, Attempt(p) \/ AutoCapture(p) PROVE CreditInv'
  BY <1>2 DEF Attempt, AutoCapture, Capturable
<1>3. ASSUME NEW h \in Handlers, NEW p \in Payments, Verify(h, p) PROVE CreditInv'
  BY <1>3 DEF Verify, Enter
<1>4. ASSUME NEW h \in Handlers, NEW e \in Events, Webhook(h, e) PROVE CreditInv'
  BY <1>4 DEF Webhook, Enter
<1>5. ASSUME NEW h \in Handlers, ReadOrder(h) PROVE CreditInv'
  BY <1>5 DEF ReadOrder
<1>6. ASSUME NEW h \in Handlers, Capture(h) PROVE CreditInv'
  BY <1>6 DEF Capture, Capturable
<1>7. ASSUME NEW h \in Handlers, MarkFailed(h) PROVE CreditInv'
  BY <1>7 DEF MarkFailed
<1>8. ASSUME NEW h \in Handlers, Apply(h) PROVE CreditInv'
  BY <1>8 DEF Apply
<1>9. ASSUME NEW h \in Handlers, MarkPaid(h) PROVE CreditInv'
  BY <1>9 DEF MarkPaid
<1>10. ASSUME NEW h \in Handlers, Done(h) PROVE CreditInv'
  BY <1>10 DEF Done, Leave
<1>11. ASSUME NEW h \in Handlers, Throw(h) \/ Crash(h) PROVE CreditInv'
  BY <1>11 DEF Throw, Crash, Leave
<1>12. ASSUME NEW h \in Handlers, DbFault(h) PROVE CreditInv'
  BY <1>12 DEF DbFault
<1>13. CASE UNCHANGED vars
  BY <1>13 DEF vars
<1>14. QED
  BY <1>1, <1>2, <1>3, <1>4, <1>5, <1>6, <1>7, <1>8, <1>9, <1>10, <1>11, <1>12,
     <1>13 DEF Next, Step

\* The invariant holds always.
LEMMA TopUpInvariant == Spec => [](TypeOK /\ CreditInv)
BY TopUpInit, TopUpType, TopUpStep, PTL DEF Spec

\* The shape of the state is kept by every request and every fault.
THEOREM TopUpTypeCorrect == Spec => []TypeOK
BY TopUpInvariant, PTL

\* An order is credited at most once, and only for captured money.
THEOREM TopUpCreditedOnce == Spec => []CreditedOnce
<1>1. CreditInv => CreditedOnce
  BY DEF CreditInv, CreditedOnce
<1>2. QED
  BY <1>1, TopUpInvariant, PTL

\* An order marked paid has its payment in the ledger.
THEOREM TopUpPaidIsCredited == Spec => []PaidIsCredited
<1>1. CreditInv => PaidIsCredited
  BY DEF CreditInv
<1>2. QED
  BY <1>1, TopUpInvariant, PTL

\* A paid order stays paid, by the same payment.
THEOREM TopUpPaidForGood == Spec => PaidForGood
<1>1. TypeOK /\ CreditInv /\ [Next]_vars
        => [\A o \in Orders :
              order[o] = "paid" => order'[o] = "paid" /\ paidBy'[o] = paidBy[o]]_vars
  <2> SUFFICES ASSUME TypeOK, CreditInv, [Next]_vars,
                      NEW o \in Orders, order[o] = "paid"
               PROVE  order'[o] = "paid" /\ paidBy'[o] = paidBy[o]
    OBVIOUS
  <2> USE DEF TypeOK, CreditInv, db, razorpay
  <2>1. ASSUME NEW x \in Orders, StartTopup(x)
        PROVE  order'[o] = "paid" /\ paidBy'[o] = paidBy[o]
    BY <2>1 DEF StartTopup
  <2>2. ASSUME NEW h \in Handlers, MarkFailed(h)
        PROVE  order'[o] = "paid" /\ paidBy'[o] = paidBy[o]
    BY <2>2 DEF MarkFailed
  <2>3. ASSUME NEW h \in Handlers, MarkPaid(h)
        PROVE  order'[o] = "paid" /\ paidBy'[o] = paidBy[o]
    BY <2>3 DEF MarkPaid
  <2>4. CASE UNCHANGED <<order, paidBy>>
    BY <2>4
  <2>5. QED
    BY <2>1, <2>2, <2>3, <2>4
    DEF Next, Step, Attempt, AutoCapture, Verify, Webhook, ReadOrder, Capture, Apply,
        Done, Throw, DbFault, Crash, vars
<1>2. QED
  BY <1>1, TopUpInvariant, PTL DEF Spec, PaidForGood

\* Orders and ledger agree: credited once and for captured money, and what is
\* paid is credited and stays paid.
THEOREM TopUpCreditSafety == Spec => CreditSafety
  BY TopUpCreditedOnce, TopUpPaidIsCredited, TopUpPaidForGood, PTL DEF CreditSafety

-----------------------------------------------------------------------------
(***************************************************************************)
(* Subscriptions.  What keeps a row true is that a claimed event has a     *)
(* handler of its own until the row is at least as new as its snapshot --  *)
(* or the model has noted that the event was lost or overtaken.            *)
(***************************************************************************)
Statuses == {"created", "authenticated", "active", "pending", "halted", "cancelled"}
Requests == [op : {"none", "subscribe", "verify", "cancel", "webhook"},
             at : {"idle", "begin", "insert", "adopt", "update"}, sub : Ids \union {0}, snap : Nat]

SubscriptionShape ==
  /\ remote \in [Ids -> Seq(Statuses)]
  /\ cancelling \subseteq Ids /\ over \subseteq Ids /\ troubled \subseteq Ids
  /\ answered \subseteq Ids \X Nat /\ events \subseteq Ids \X Nat
  /\ row \in [Ids -> [status : Statuses \union {"none", "abandoned"}, cancels : BOOLEAN]]
  /\ call \in [BillingJobs -> Requests]
  /\ billingFaults \in Nat /\ newest \in [Ids -> Nat]

\* A subscription begins as created, and is never again.
Begins ==
  \A s \in Ids : /\ remote[s] # <<>> => remote[s][1] = "created"
                 /\ \A n \in 2 .. Len(remote[s]) : remote[s][n] # "created"

\* What a row says, Razorpay once said.
RowsAreOld ==
  \A s \in Ids :
    /\ newest[s] <= Len(remote[s]) /\ (newest[s] = 0 <=> row[s] = NoRow)
    /\ row[s].status \in {"none", "abandoned"} \/ \E n \in 1 .. Len(remote[s]) : row[s].status = remote[s][n]
    /\ s \notin troubled /\ newest[s] > 0 =>
         row[s].status = remote[s][newest[s]] \/ (newest[s] = 1 /\ row[s].status = "abandoned")

\* Where a request stands.
InPlace(j) ==
  LET c == call[j] IN
  /\ c.op = "none" => c.sub = 0
  /\ c.op # "none" => c.sub \in Ids
  /\ c.op = "subscribe" => (c.at = "begin" /\ remote[c.sub] = <<>>) \/ (c.at = "insert" /\ remote[c.sub] # <<>>)
  /\ c.op \in {"verify", "cancel"} =>
       Len(remote[c.sub]) > 1 /\ (c.at = "begin" \/ (c.at = "update" /\ c.snap \in 2 .. Len(remote[c.sub])))
  /\ c.op = "webhook" =>
       /\ c.snap \in 2 .. Len(remote[c.sub]) /\ c.at \in {"begin", "adopt", "update"}
       /\ c.at = "update" => newest[c.sub] > 0

\* Every checkout is of a subscription of its own.
OneSubscribes ==
  \A i, j \in BillingJobs : call[i].op = "subscribe" /\ call[j].op = "subscribe" /\ call[i].sub = call[j].sub => i = j

\* A handler holds the event of snapshot n: it claimed it, and works on it.
Holds(j, s, n) == call[j].op = "webhook" /\ call[j].at \in {"adopt", "update"} /\ call[j].sub = s /\ call[j].snap = n

\* A claimed event has a handler of its own or is in the row, unless that was
\* noted; an answered one stays claimed.
Held ==
  \A s \in Ids, n \in Nat :
    /\ \A j \in BillingJobs : Holds(j, s, n) => <<s, n>> \in events /\ \A i \in BillingJobs : Holds(i, s, n) => i = j
    /\ s \notin troubled /\ <<s, n>> \in answered => <<s, n>> \in events
    /\ s \notin troubled /\ <<s, n>> \in events => newest[s] >= n \/ \E j \in BillingJobs : Holds(j, s, n)

SubscriptionInv ==
  /\ SubscriptionShape /\ Begins /\ RowsAreOld /\ (\A j \in BillingJobs : InPlace(j)) /\ OneSubscribes /\ Held

-----------------------------------------------------------------------------
(***************************************************************************)
(* What the helpers of the model do, field by field.                       *)
(***************************************************************************)
Alone(j) == call' \in [BillingJobs -> Requests] /\ \A i \in BillingJobs : i # j => call'[i] = call[i]
Asked(j, op, s, snap) ==
  /\ Alone(j) /\ call[j].op = "none"
  /\ call'[j].op = op /\ call'[j].at = "begin" /\ call'[j].sub = s /\ call'[j].snap = snap
Went(j, place, snap) ==
  /\ Alone(j) /\ call'[j].op = call[j].op /\ call'[j].sub = call[j].sub
  /\ call'[j].at = place /\ call'[j].snap = snap
Ended(j) == Alone(j) /\ call'[j].op = "none" /\ call'[j].sub = 0

\* A request that begins.
LEMMA AskedFields ==
  ASSUME SubscriptionShape, NEW j \in BillingJobs, NEW op \in {"subscribe", "verify", "cancel", "webhook"},
         NEW s \in Ids, NEW snap \in Nat, Begin(j, op, s, snap)
  PROVE  Asked(j, op, s, snap)
<1> DEFINE c == [op |-> op, at |-> "begin", sub |-> s, snap |-> snap]
<1>1. c \in Requests /\ c.op = op /\ c.at = "begin" /\ c.sub = s /\ c.snap = snap
  BY DEF Requests
<1>2. call \in [BillingJobs -> Requests] /\ call' = [call EXCEPT ![j] = c] /\ call[j].op = "none"
  BY DEF SubscriptionShape, Begin
<1> HIDE DEF c
<1>3. QED
  BY <1>1, <1>2 DEF Asked, Alone

\* A request that goes on to its next await.
LEMMA WentFields ==
  ASSUME SubscriptionShape, NEW j \in BillingJobs, NEW place \in {"insert", "adopt", "update"},
         NEW snap \in Nat, Proceed(j, place, snap)
  PROVE  Went(j, place, snap)
<1>1. call \in [BillingJobs -> Requests] /\ call[j] \in Requests
  BY DEF SubscriptionShape
<1> DEFINE c == [call[j] EXCEPT !.at = place, !.snap = snap]
<1>2. c \in Requests /\ c.op = call[j].op /\ c.at = place /\ c.sub = call[j].sub /\ c.snap = snap
  BY <1>1 DEF Requests
<1>3. call' = [call EXCEPT ![j] = c]
  BY DEF Proceed
<1> HIDE DEF c
<1>4. QED
  BY <1>1, <1>2, <1>3 DEF Went, Alone

\* A request that ends.
LEMMA EndedFields ==
  ASSUME SubscriptionShape, NEW j \in BillingJobs, EndJob(j)
  PROVE  Ended(j)
<1>1. call \in [BillingJobs -> Requests] /\ call' = [call EXCEPT ![j] = NoBillingJob]
  BY DEF SubscriptionShape, EndJob
<1>2. NoBillingJob \in Requests /\ NoBillingJob.op = "none" /\ NoBillingJob.sub = 0
  BY DEF NoBillingJob, Requests
<1>3. QED
  BY <1>1, <1>2 DEF Ended, Alone

\* Razorpay's list of snapshots of one subscription grows.
Grown(s, status) ==
  /\ remote' \in [Ids -> Seq(Statuses)] /\ \A t \in Ids : t # s => remote'[t] = remote[t]
  /\ Len(remote'[s]) = Len(remote[s]) + 1
  /\ \A n \in 1 .. Len(remote[s]) : remote'[s][n] = remote[s][n]
  /\ remote'[s][Len(remote[s]) + 1] = status

\* A change at Razorpay is one more snapshot.
LEMMA GrownFields ==
  ASSUME SubscriptionShape, NEW s \in Ids, NEW status \in Statuses, Change(s, status)
  PROVE  Grown(s, status)
<1>1. remote \in [Ids -> Seq(Statuses)] /\ remote[s] \in Seq(Statuses)
  BY DEF SubscriptionShape
<1>2. remote' = [remote EXCEPT ![s] = Append(remote[s], status)]
  BY DEF Change
<1> DEFINE t == Append(remote[s], status)
<1>3. /\ t \in Seq(Statuses) /\ Len(t) = Len(remote[s]) + 1 /\ t[Len(remote[s]) + 1] = status
      /\ \A n \in 1 .. Len(remote[s]) : t[n] = remote[s][n]
  BY <1>1
<1> HIDE DEF t
<1>4. remote' \in [Ids -> Seq(Statuses)] /\ remote'[s] = t /\ \A u \in Ids : u # s => remote'[u] = remote[u]
  BY <1>1, <1>2, <1>3 DEF t
<1>5. QED
  BY <1>3, <1>4 DEF Grown

\* A row is written from a snapshot, if there is one ...
Written(s, snap) ==
  /\ row' \in [Ids -> [status : Statuses \union {"none", "abandoned"}, cancels : BOOLEAN]]
  /\ newest' \in [Ids -> Nat] /\ troubled' \subseteq Ids /\ troubled \subseteq troubled'
  /\ \A t \in Ids : t # s => row'[t] = row[t] /\ newest'[t] = newest[t] /\ (t \in troubled' => t \in troubled)
  /\ newest[s] = 0 => row'[s] = row[s] /\ newest'[s] = 0
  /\ newest[s] > 0 => /\ row'[s] # NoRow /\ row'[s].status = remote[s][snap]
                      /\ newest'[s] = IF snap > newest[s] THEN snap ELSE newest[s]
                      /\ snap < newest[s] => s \in troubled'

\* UpdateSubscription writes a row so.
LEMMA WrittenFields ==
  ASSUME SubscriptionShape, RowsAreOld, NEW s \in Ids, NEW snap \in 2 .. Len(remote[s]), NEW cancels \in BOOLEAN,
         UpdateSubscription(s, snap, cancels)
  PROVE  Written(s, snap)
<1>1. remote[s] \in Seq(Statuses) /\ remote[s][snap] \in Statuses /\ snap \in Nat
  BY DEF SubscriptionShape
<1>2. row \in [Ids -> [status : Statuses \union {"none", "abandoned"}, cancels : BOOLEAN]]
      /\ newest \in [Ids -> Nat] /\ troubled \subseteq Ids
  BY DEF SubscriptionShape
<1>3. newest[s] = 0 <=> row[s] = NoRow
  BY DEF RowsAreOld
<1>4. CASE newest[s] = 0
  <2>1. row' = row /\ newest' = newest /\ troubled' = troubled
    BY <1>3, <1>4 DEF UpdateSubscription
  <2>2. QED
    BY <1>2, <1>4, <2>1 DEF Written
<1>5. CASE newest[s] # 0
  <2> DEFINE r == [status |-> remote[s][snap], cancels |-> row[s].cancels \/ cancels]
  <2>1. r \in [status : Statuses \union {"none", "abandoned"}, cancels : BOOLEAN]
        /\ r.status = remote[s][snap] /\ r # NoRow
    BY <1>1, <1>2 DEF NoRow, Statuses
  <2>2. row' = [row EXCEPT ![s] = r]
    BY <1>3, <1>5 DEF UpdateSubscription
  <2> HIDE DEF r
  <2>3. row' \in [Ids -> [status : Statuses \union {"none", "abandoned"}, cancels : BOOLEAN]]
        /\ row'[s] = r /\ \A t \in Ids : t # s => row'[t] = row[t]
    BY <1>2, <2>1, <2>2
  <2>4. newest' = IF snap <= newest[s] THEN newest ELSE [newest EXCEPT ![s] = snap]
    BY <1>3, <1>5 DEF UpdateSubscription
  <2>5. troubled' = IF snap < newest[s] THEN troubled \union {s} ELSE troubled
    BY <1>3, <1>5 DEF UpdateSubscription
  <2>6. newest' \in [Ids -> Nat] /\ newest'[s] = (IF snap > newest[s] THEN snap ELSE newest[s])
        /\ \A t \in Ids : t # s => newest'[t] = newest[t]
    BY <1>1, <1>2, <2>4
  <2>7. QED
    BY <1>2, <1>5, <2>1, <2>3, <2>5, <2>6 DEF Written
<1>6. QED
  BY <1>4, <1>5

\* ... and inserted from one, if there is none.
Inserted(s, snap) ==
  /\ row' \in [Ids -> [status : Statuses \union {"none", "abandoned"}, cancels : BOOLEAN]]
  /\ newest' \in [Ids -> Nat]
  /\ \A t \in Ids : t # s => row'[t] = row[t] /\ newest'[t] = newest[t]
  /\ newest[s] > 0 => row'[s] = row[s] /\ newest'[s] = newest[s]
  /\ newest[s] = 0 => row'[s] # NoRow /\ row'[s].status = remote[s][snap] /\ newest'[s] = snap

\* InsertSubscription inserts a row so.
LEMMA InsertedFields ==
  ASSUME SubscriptionShape, RowsAreOld, NEW s \in Ids, NEW snap \in 1 .. Len(remote[s]),
         InsertSubscription(s, remote[s][snap], snap)
  PROVE  Inserted(s, snap)
<1>1. remote[s] \in Seq(Statuses) /\ remote[s][snap] \in Statuses /\ snap \in Nat
  BY DEF SubscriptionShape
<1>2. row \in [Ids -> [status : Statuses \union {"none", "abandoned"}, cancels : BOOLEAN]]
      /\ newest \in [Ids -> Nat]
  BY DEF SubscriptionShape
<1>3. newest[s] = 0 <=> row[s] = NoRow
  BY DEF RowsAreOld
<1>4. CASE newest[s] # 0
  BY <1>2, <1>3, <1>4 DEF Inserted, InsertSubscription
<1>5. CASE newest[s] = 0
  <2> DEFINE r == [status |-> remote[s][snap], cancels |-> FALSE]
  <2>1. r \in [status : Statuses \union {"none", "abandoned"}, cancels : BOOLEAN]
        /\ r.status = remote[s][snap] /\ r # NoRow
    BY <1>1 DEF NoRow, Statuses
  <2>2. row' = [row EXCEPT ![s] = r] /\ newest' = [newest EXCEPT ![s] = snap]
    BY <1>3, <1>5 DEF InsertSubscription
  <2> HIDE DEF r
  <2>3. QED
    BY <1>1, <1>2, <1>5, <2>1, <2>2 DEF Inserted
<1>6. QED
  BY <1>4, <1>5

-----------------------------------------------------------------------------
(***************************************************************************)
(* The plan that is granted.                                               *)
(***************************************************************************)

\* A subscription that grants a plan was paid: its row says what Razorpay said
\* of it after it was created.
LEMMA GrantedIsPaid ==
  ASSUME SubscriptionShape, Begins, RowsAreOld, NEW s \in Ids, Grants(s)
  PROVE  Len(remote[s]) > 1
<1>1. remote[s] \in Seq(Statuses) /\ newest[s] \in Nat /\ Len(remote[s]) \in Nat
  BY DEF SubscriptionShape
<1>2. CASE newest[s] > 1
  BY <1>1, <1>2 DEF RowsAreOld
<1>3. CASE row[s].status \in Entitled
  <2>1. PICK n \in 1 .. Len(remote[s]) : row[s].status = remote[s][n]
    BY <1>3 DEF RowsAreOld, Entitled
  <2>2. n # 1
    BY <1>1, <1>3, <2>1 DEF Begins, Entitled
  <2>3. QED
    BY <1>1, <2>1, <2>2
<1>4. QED
  BY <1>2, <1>3 DEF Grants

\* The plan that is current is one that is granted.
LEMMA CurrentIsGranted ==
  ASSUME CurrentSubscription # 0
  PROVE  CurrentSubscription \in Ids /\ Grants(CurrentSubscription)
<1> DEFINE G == {s \in Ids : Grants(s)}
           T == {Subs - s : s \in G}
<1>1. G # {}
  BY DEF CurrentSubscription
<1>2. \A s \in Ids : s \in Int /\ Subs - s \in Nat
  BY SubscriptionAssumption DEF Ids
<1>3. PICK x \in T : \A y \in T : x <= y
  <2>1. T \subseteq Nat /\ T # {}
    BY <1>1, <1>2
  <2> HIDE DEF T
  <2>2. QED
    BY <2>1, LeastOf
<1>4. PICK s \in G : x = Subs - s
  OBVIOUS
<1>5. \A t \in G : t <= s
  <2> TAKE t \in G
  <2>1. Subs - s <= Subs - t
    BY <1>3, <1>4
  <2>2. QED
    BY <1>2, <2>1, SubscriptionAssumption
<1>6. \E u \in Ids : Grants(u) /\ \A t \in Ids : Grants(t) => t <= u
  BY <1>5
<1>7. CurrentSubscription = CHOOSE u \in Ids : Grants(u) /\ \A t \in Ids : Grants(t) => t <= u
  BY <1>1 DEF CurrentSubscription
<1>8. QED
  BY <1>6, <1>7

-----------------------------------------------------------------------------
(***************************************************************************)
(* What each step does to what the invariant speaks of.                    *)
(***************************************************************************)
Rows == <<row, newest, troubled>>
Told == <<answered, events>>
RazorpayStep ==
  /\ \E s \in Ids, status \in Statuses \ {"created"} : remote[s] # <<>> /\ Grown(s, status)
  /\ UNCHANGED <<call, Rows, Told>>
Expired(s) ==
  /\ row' \in [Ids -> [status : Statuses \union {"none", "abandoned"}, cancels : BOOLEAN]]
  /\ \A t \in Ids : t # s => row'[t] = row[t]
  /\ row[s].status = "created" /\ row'[s].status = "abandoned" /\ row'[s] # NoRow
  /\ UNCHANGED <<call, newest, troubled, Told, remote>>
Asking(j) ==
  /\ \E s \in Ids, snap \in Nat :
       \/ /\ Asked(j, "subscribe", s, snap) /\ remote[s] = <<>>
          /\ \A i \in BillingJobs : call[i].op = "subscribe" => call[i].sub # s
       \/ (Asked(j, "verify", s, snap) \/ Asked(j, "cancel", s, snap)) /\ Len(remote[s]) > 1
       \/ Asked(j, "webhook", s, snap) /\ snap \in 2 .. Len(remote[s])
  /\ UNCHANGED <<Rows, Told, remote>>
Creating(j) ==
  /\ BillingStep(j, "subscribe", "begin") /\ Went(j, "insert", 1) /\ Grown(call[j].sub, "created")
  /\ UNCHANGED <<Rows, Told>>
Created(j) ==
  /\ BillingStep(j, "subscribe", "insert") /\ Ended(j) /\ Inserted(call[j].sub, 1)
  /\ UNCHANGED <<troubled, Told, remote>>
Fetched(j) ==
  /\ call[j].op \in {"verify", "cancel"} /\ call[j].at = "begin"
  /\ Ended(j) \/ \E snap \in 2 .. Len(remote[call[j].sub]) : Went(j, "update", snap)
  /\ UNCHANGED <<Rows, Told, remote>>
Wrote(j) ==
  /\ call[j].op \in {"verify", "cancel"} /\ call[j].at = "update" /\ Ended(j)
  /\ Written(call[j].sub, call[j].snap)
  /\ UNCHANGED <<Told, remote>>
Claimed(j) ==
  LET ev == <<call[j].sub, call[j].snap>> IN
  /\ BillingStep(j, "webhook", "begin")
  /\ \/ ev \in events /\ Ended(j) /\ answered' = answered \union {ev} /\ UNCHANGED events
     \/ ev \notin events /\ Went(j, "adopt", call[j].snap) /\ events' = events \union {ev} /\ UNCHANGED answered
  /\ UNCHANGED <<Rows, remote>>
Adopted(j) ==
  /\ BillingStep(j, "webhook", "adopt") /\ Went(j, "update", call[j].snap) /\ Inserted(call[j].sub, call[j].snap)
  /\ UNCHANGED <<troubled, Told, remote>>
WroteEvent(j) ==
  /\ BillingStep(j, "webhook", "update") /\ Ended(j) /\ Written(call[j].sub, call[j].snap)
  /\ answered' = answered \union {<<call[j].sub, call[j].snap>>}
  /\ UNCHANGED <<events, remote>>
Released(j) ==
  LET ev == <<call[j].sub, call[j].snap>> IN
  /\ call[j].op = "webhook" /\ call[j].at \in {"adopt", "update"} /\ Ended(j)
  /\ events' = events \ {ev}
  /\ troubled' = IF ev \in answered THEN troubled \union {call[j].sub} ELSE troubled
  /\ UNCHANGED <<answered, row, newest, remote>>
Aborted(j) ==
  /\ Ended(j)
  /\ troubled' = IF call[j].op = "webhook" /\ call[j].at # "begin"
                 THEN troubled \union {call[j].sub} ELSE troubled
  /\ call[j].op # "none"
  /\ UNCHANGED <<Told, row, newest, remote>>
OfJob(j) ==
  \/ Asking(j) \/ Creating(j) \/ Created(j) \/ Fetched(j) \/ Wrote(j) \/ Claimed(j)
  \/ Adopted(j) \/ WroteEvent(j) \/ Released(j) \/ Aborted(j)
OfNoJob == RazorpayStep \/ (\E s \in Ids : Expired(s)) \/ UNCHANGED <<remote, call, Rows, Told>>

\* Every step is one of these.
LEMMA BillingSteps ==
  ASSUME SubscriptionInv, [BillingNext]_billingVars
  PROVE  OfNoJob \/ \E j \in BillingJobs : OfJob(j)
<1> SubscriptionShape /\ Begins /\ RowsAreOld /\ \A j \in BillingJobs : InPlace(j)
  BY DEF SubscriptionInv
<1>1. ASSUME NEW s \in Ids, RazorpayMoves(s) PROVE OfNoJob
  <2>1. PICK status \in Statuses \ {"created"} : Change(s, status)
    BY <1>1 DEF RazorpayMoves, Statuses
  <2>2. Grown(s, status)
    BY <2>1, GrownFields
  <2>3. QED
    BY <1>1, <2>2 DEF RazorpayMoves, OfNoJob, RazorpayStep, Rows, Told
<1>2. ASSUME NEW s \in Ids, ExpireStaleCreated(s) PROVE OfNoJob
  <2>1. row \in [Ids -> [status : Statuses \union {"none", "abandoned"}, cancels : BOOLEAN]]
    BY DEF SubscriptionShape
  <2>2. row' = [row EXCEPT ![s].status = "abandoned"] /\ row[s].status = "created"
    BY <1>2 DEF ExpireStaleCreated
  <2>3. row' = [row EXCEPT ![s] = [row[s] EXCEPT !.status = "abandoned"]]
    BY <2>1, <2>2
  <2>4. [row[s] EXCEPT !.status = "abandoned"] \in [status : Statuses \union {"none", "abandoned"}, cancels : BOOLEAN]
        /\ [row[s] EXCEPT !.status = "abandoned"].status = "abandoned"
    BY <2>1
  <2>5. row' \in [Ids -> [status : Statuses \union {"none", "abandoned"}, cancels : BOOLEAN]]
        /\ row'[s].status = "abandoned" /\ \A t \in Ids : t # s => row'[t] = row[t]
    BY <2>1, <2>3, <2>4
  <2>6. row'[s] # NoRow
    BY <2>5 DEF NoRow
  <2>7. QED
    BY <1>2, <2>2, <2>5, <2>6 DEF ExpireStaleCreated, Expired, OfNoJob, Told
<1>3. ASSUME NEW j \in BillingJobs, NEW s \in Ids, Subscribe(j, s) PROVE OfJob(j)
  <2>1. Asked(j, "subscribe", s, 0)
    BY <1>3, AskedFields DEF Subscribe
  <2>2. QED
    BY <1>3, <2>1 DEF Subscribe, OfJob, Asking, Rows, Told
<1>4. ASSUME NEW j \in BillingJobs, NEW s \in Ids, VerifyCheckout(j, s) PROVE OfJob(j)
  <2>1. Asked(j, "verify", s, 0)
    BY <1>4, AskedFields DEF VerifyCheckout
  <2>2. QED
    BY <1>4, <2>1 DEF VerifyCheckout, OfJob, Asking, Rows, Told
<1>5. ASSUME NEW j \in BillingJobs, NEW s \in Ids, Cancel(j, s) PROVE OfJob(j)
  <2>1. Asked(j, "cancel", s, 0)
    BY <1>5, AskedFields DEF Cancel
  <2>2. s = CurrentSubscription /\ s # 0
    BY <1>5 DEF Cancel, Ids
  <2>3. Len(remote[s]) > 1
    BY <2>2, CurrentIsGranted, GrantedIsPaid
  <2>4. QED
    BY <1>5, <2>1, <2>3 DEF Cancel, OfJob, Asking, Rows, Told
<1>6. ASSUME NEW j \in BillingJobs, NEW s \in Ids, NEW snap \in 2 .. MaxSnapshots, SubscriptionEvent(j, s, snap)
      PROVE OfJob(j)
  <2>1. snap \in Nat /\ snap \in 2 .. Len(remote[s])
    BY <1>6, SubscriptionAssumption DEF SubscriptionEvent
  <2>2. Asked(j, "webhook", s, snap)
    BY <1>6, <2>1, AskedFields DEF SubscriptionEvent
  <2>3. QED
    BY <1>6, <2>1, <2>2 DEF SubscriptionEvent, OfJob, Asking, Rows, Told
<1>7. ASSUME NEW j \in BillingJobs PROVE call[j] \in Requests /\ InPlace(j)
  BY DEF SubscriptionShape
<1>8. ASSUME NEW j \in BillingJobs, CreateAtRazorpay(j) PROVE OfJob(j)
  <2>1. Went(j, "insert", 1)
    BY <1>8, WentFields DEF CreateAtRazorpay
  <2>2. call[j].sub \in Ids
    BY <1>7, <1>8 DEF CreateAtRazorpay, BillingStep, InPlace
  <2>3. Grown(call[j].sub, "created")
    BY <1>8, <2>2, GrownFields DEF CreateAtRazorpay, Statuses
  <2>4. QED
    BY <1>8, <2>1, <2>3 DEF CreateAtRazorpay, OfJob, Creating, Rows, Told
<1>9. ASSUME NEW j \in BillingJobs, InsertCreated(j) PROVE OfJob(j)
  <2>1. Ended(j)
    BY <1>9, EndedFields DEF InsertCreated
  <2>2. call[j].sub \in Ids /\ remote[call[j].sub] # <<>>
    BY <1>7, <1>9 DEF InsertCreated, BillingStep, InPlace
  <2>3. 1 \in 1 .. Len(remote[call[j].sub]) /\ remote[call[j].sub][1] = "created"
    BY <2>2 DEF SubscriptionShape, Begins
  <2>4. Inserted(call[j].sub, 1)
    BY <1>9, <2>2, <2>3, InsertedFields DEF InsertCreated
  <2>5. QED
    BY <1>9, <2>1, <2>4 DEF InsertCreated, OfJob, Created, Told
<1>10. ASSUME NEW j \in BillingJobs, FetchSubscription(j) PROVE OfJob(j)
  <2>1. call[j].sub \in Ids /\ Len(remote[call[j].sub]) > 1 /\ call[j].op = "verify" /\ call[j].at = "begin"
    BY <1>7, <1>10 DEF FetchSubscription, BillingStep, InPlace
  <2>2. Len(remote[call[j].sub]) \in Nat
    BY <2>1 DEF SubscriptionShape
  <2>3. PICK snap \in {2, Len(remote[call[j].sub])} : Proceed(j, "update", snap)
    BY <1>10 DEF FetchSubscription
  <2>4. snap \in Nat /\ snap \in 2 .. Len(remote[call[j].sub])
    BY <2>1, <2>2
  <2>5. Went(j, "update", snap)
    BY <2>3, <2>4, WentFields
  <2>6. QED
    BY <1>10, <2>1, <2>4, <2>5 DEF FetchSubscription, OfJob, Fetched, Rows, Told
<1>11. ASSUME NEW j \in BillingJobs, CancelAtRazorpay(j) PROVE OfJob(j)
  <2>1. call[j].sub \in Ids /\ Len(remote[call[j].sub]) > 1 /\ call[j].op = "cancel" /\ call[j].at = "begin"
    BY <1>7, <1>11 DEF CancelAtRazorpay, BillingStep, InPlace
  <2>2. Len(remote[call[j].sub]) \in Nat /\ Len(remote[call[j].sub]) \in 2 .. Len(remote[call[j].sub])
    BY <2>1 DEF SubscriptionShape
  <2>3. EndJob(j) \/ Proceed(j, "update", Len(remote[call[j].sub]))
    BY <1>11 DEF CancelAtRazorpay
  <2>4. Ended(j) \/ Went(j, "update", Len(remote[call[j].sub]))
    BY <2>2, <2>3, WentFields, EndedFields
  <2>5. QED
    BY <1>11, <2>1, <2>2, <2>4 DEF CancelAtRazorpay, OfJob, Fetched, Rows, Told
<1>12. ASSUME NEW j \in BillingJobs, WriteRow(j) PROVE OfJob(j)
  <2>1. Ended(j)
    BY <1>12, EndedFields DEF WriteRow
  <2>2. call[j].sub \in Ids /\ call[j].snap \in 2 .. Len(remote[call[j].sub]) /\ (call[j].op = "cancel") \in BOOLEAN
    BY <1>7, <1>12 DEF WriteRow, InPlace
  <2>3. Written(call[j].sub, call[j].snap)
    BY <1>12, <2>2, WrittenFields DEF WriteRow
  <2>4. QED
    BY <1>12, <2>1, <2>3 DEF WriteRow, OfJob, Wrote, Told
<1>13. ASSUME NEW j \in BillingJobs, ClaimEvent(j) PROVE OfJob(j)
  <2>1. EndJob(j) => Ended(j)
    BY EndedFields
  <2>2. call[j].snap \in Nat
    BY <1>7 DEF Requests
  <2>3. Proceed(j, "adopt", call[j].snap) => Went(j, "adopt", call[j].snap)
    BY <2>2, WentFields
  <2>4. QED
    BY <1>13, <2>1, <2>3 DEF ClaimEvent, OfJob, Claimed, Rows
<1>14. ASSUME NEW j \in BillingJobs, Adopt(j) PROVE OfJob(j)
  <2>1. call[j].sub \in Ids /\ call[j].snap \in 2 .. Len(remote[call[j].sub]) /\ call[j].snap \in Nat
    BY <1>7, <1>14 DEF Adopt, BillingStep, InPlace, Requests
  <2>2. Went(j, "update", call[j].snap)
    BY <1>14, <2>1, WentFields DEF Adopt
  <2>3. call[j].snap \in 1 .. Len(remote[call[j].sub])
    BY <2>1
  <2>4. Inserted(call[j].sub, call[j].snap)
    BY <1>14, <2>1, <2>3, InsertedFields DEF Adopt
  <2>5. QED
    BY <1>14, <2>2, <2>4 DEF Adopt, OfJob, Adopted, Told
<1>15. ASSUME NEW j \in BillingJobs, WriteFromEvent(j) PROVE OfJob(j)
  <2>1. Ended(j)
    BY <1>15, EndedFields DEF WriteFromEvent
  <2>2. call[j].sub \in Ids /\ call[j].snap \in 2 .. Len(remote[call[j].sub])
    BY <1>7, <1>15 DEF WriteFromEvent, BillingStep, InPlace
  <2>3. Written(call[j].sub, call[j].snap)
    BY <1>15, <2>2, WrittenFields DEF WriteFromEvent
  <2>4. QED
    BY <1>15, <2>1, <2>3 DEF WriteFromEvent, OfJob, WroteEvent
<1>16. ASSUME NEW j \in BillingJobs, ReleaseEvent(j) PROVE OfJob(j)
  <2>1. Ended(j)
    BY <1>16, EndedFields DEF ReleaseEvent
  <2>2. QED
    BY <1>16, <2>1 DEF ReleaseEvent, OfJob, Released
<1>17. ASSUME NEW j \in BillingJobs, Abort(j) PROVE OfJob(j)
  <2>1. Ended(j)
    BY <1>17, EndedFields DEF Abort
  <2>2. QED
    BY <1>17, <2>1 DEF Abort, OfJob, Aborted, Told
<1>18. CASE UNCHANGED billingVars
  BY <1>18 DEF billingVars, OfNoJob, Rows, Told
<1>19. QED
  BY <1>1, <1>2, <1>3, <1>4, <1>5, <1>6, <1>8, <1>9, <1>10, <1>11, <1>12, <1>13, <1>14, <1>15, <1>16, <1>17, <1>18
     DEF BillingNext

-----------------------------------------------------------------------------
(***************************************************************************)
(* Each step keeps the invariant, part by part.                            *)
(***************************************************************************)

\* What Razorpay said stays, and no subscription's list gets shorter.
LEMMA SnapshotsStay ==
  ASSUME SubscriptionInv, [BillingNext]_billingVars, NEW s \in Ids
  PROVE  /\ remote' \in [Ids -> Seq(Statuses)]
         /\ Len(remote[s]) \in Nat /\ Len(remote'[s]) \in Nat /\ Len(remote[s]) <= Len(remote'[s])
         /\ \A n \in 1 .. Len(remote[s]) : remote'[s][n] = remote[s][n]
<1>1. remote \in [Ids -> Seq(Statuses)]
  BY DEF SubscriptionInv, SubscriptionShape
<1>2. ASSUME NEW t \in Ids, NEW status \in Statuses, Grown(t, status)
      PROVE  /\ remote' \in [Ids -> Seq(Statuses)] /\ Len(remote[s]) <= Len(remote'[s])
             /\ \A n \in 1 .. Len(remote[s]) : remote'[s][n] = remote[s][n]
  <2>1. remote' \in [Ids -> Seq(Statuses)] /\ Len(remote[s]) \in Nat
    BY <1>1, <1>2 DEF Grown
  <2>2. CASE t = s
    BY <1>2, <2>1, <2>2 DEF Grown
  <2>3. CASE t # s
    <3>1. remote'[s] = remote[s]
      BY <1>2, <2>3 DEF Grown
    <3>2. QED
      BY <2>1, <3>1
  <2>4. QED
    BY <2>1, <2>2, <2>3
<1>3. CASE remote' = remote
  BY <1>1, <1>3
<1>4. ASSUME RazorpayStep
      PROVE \E t \in Ids, status \in Statuses : Grown(t, status)
  BY <1>4 DEF RazorpayStep
<1>5. ASSUME NEW j \in BillingJobs, Creating(j)
      PROVE \E t \in Ids, status \in Statuses : Grown(t, status)
  <2>1. call[j].sub \in Ids /\ "created" \in Statuses
    BY <1>5 DEF Creating, BillingStep, SubscriptionInv, InPlace, Statuses
  <2>2. QED
    BY <1>5, <2>1 DEF Creating
<1>6. remote' = remote \/ \E t \in Ids, status \in Statuses : Grown(t, status)
  BY <1>4, <1>5, BillingSteps
     DEF OfNoJob, OfJob, Expired, Asking, Created, Fetched, Wrote, Claimed, Adopted, WroteEvent, Released, Aborted
<1>7. QED
  BY <1>1, <1>2, <1>3, <1>6

\* Every step keeps how the lists of snapshots begin.
LEMMA BeginsKept ==
  ASSUME SubscriptionInv, [BillingNext]_billingVars
  PROVE  Begins'
<1>1. Begins /\ remote \in [Ids -> Seq(Statuses)]
  BY DEF SubscriptionInv, SubscriptionShape
<1>2. ASSUME RazorpayStep PROVE Begins'
  <2>1. PICK t \in Ids, status \in Statuses \ {"created"} : remote[t] # <<>> /\ Grown(t, status)
    BY <1>2 DEF RazorpayStep
  <2>2. \A s \in Ids : s # t => remote'[s] = remote[s]
    BY <2>1 DEF Grown
  <2>3. Len(remote[t]) \in Nat \ {0} /\ remote[t][1] = "created"
    BY <1>1, <2>1 DEF Begins
  <2>4. remote'[t][1] = "created"
    BY <2>1, <2>3 DEF Grown
  <2>5. ASSUME NEW n \in 2 .. Len(remote'[t]) PROVE remote'[t][n] # "created"
    <3>1. n = Len(remote[t]) + 1 \/ n \in 2 .. Len(remote[t])
      BY <2>1, <2>3 DEF Grown
    <3>2. QED
      BY <1>1, <2>1, <2>3, <3>1 DEF Begins, Grown
  <2>6. QED
    BY <1>1, <2>2, <2>4, <2>5 DEF Begins
<1>3. ASSUME NEW j \in BillingJobs, Creating(j) PROVE Begins'
  <2>1. call[j].sub \in Ids /\ remote[call[j].sub] = <<>> /\ Grown(call[j].sub, "created")
    BY <1>3 DEF Creating, BillingStep, SubscriptionInv, InPlace
  <2> DEFINE t == call[j].sub
  <2>2. \A s \in Ids : s # t => remote'[s] = remote[s]
    BY <2>1 DEF Grown
  <2>3. Len(remote'[t]) = 1 /\ remote'[t][1] = "created"
    BY <2>1 DEF Grown
  <2>4. QED
    BY <1>1, <2>2, <2>3 DEF Begins
<1>4. CASE remote' = remote
  BY <1>1, <1>4 DEF Begins
<1>5. QED
  BY <1>2, <1>3, <1>4, BillingSteps
     DEF OfNoJob, OfJob, Expired, Asking, Created, Fetched, Wrote, Claimed, Adopted, WroteEvent, Released, Aborted

\* A row that was not touched, in a step that troubles no subscription less.
RowOf(s) ==
  /\ newest[s] <= Len(remote[s]) /\ (newest[s] = 0 <=> row[s] = NoRow)
  /\ row[s].status \in {"none", "abandoned"} \/ \E n \in 1 .. Len(remote[s]) : row[s].status = remote[s][n]
  /\ s \notin troubled /\ newest[s] > 0 =>
       row[s].status = remote[s][newest[s]] \/ (newest[s] = 1 /\ row[s].status = "abandoned")

\* A row keeps saying what Razorpay once said.
LEMMA RowStays ==
  ASSUME SubscriptionInv, [BillingNext]_billingVars, NEW s \in Ids,
         row'[s] = row[s], newest'[s] = newest[s], s \notin troubled' => s \notin troubled
  PROVE  RowOf(s)'
<1>1. RowOf(s) /\ newest[s] \in Nat
  BY DEF SubscriptionInv, SubscriptionShape, RowsAreOld, RowOf
<1>2. /\ Len(remote[s]) \in Nat /\ Len(remote'[s]) \in Nat /\ Len(remote[s]) <= Len(remote'[s])
      /\ \A n \in 1 .. Len(remote[s]) : remote'[s][n] = remote[s][n]
  BY SnapshotsStay
<1>3. newest'[s] <= Len(remote'[s]) /\ (newest'[s] = 0 <=> row'[s] = NoRow)
  BY <1>1, <1>2 DEF RowOf
<1>4. row'[s].status \in {"none", "abandoned"} \/ \E n \in 1 .. Len(remote'[s]) : row'[s].status = remote'[s][n]
  BY <1>1, <1>2 DEF RowOf
<1>5. newest[s] > 0 => remote'[s][newest[s]] = remote[s][newest[s]]
  BY <1>1, <1>2 DEF RowOf
<1>6. QED
  BY <1>1, <1>3, <1>4, <1>5 DEF RowOf

\* Every step keeps what the rows say.
LEMMA RowsKept ==
  ASSUME SubscriptionInv, [BillingNext]_billingVars
  PROVE  RowsAreOld'
<1>1. RowsAreOld /\ remote \in [Ids -> Seq(Statuses)] /\ newest \in [Ids -> Nat] /\ \A j \in BillingJobs : InPlace(j)
  BY DEF SubscriptionInv, SubscriptionShape
<1>2. SUFFICES ASSUME NEW s \in Ids PROVE RowOf(s)'
  BY DEF RowsAreOld, RowOf
<1>3. CASE row'[s] = row[s] /\ newest'[s] = newest[s] /\ (s \in troubled => s \in troubled')
  BY <1>3, RowStays
<1>4. RowOf(s) /\ newest[s] \in Nat
  BY <1>1 DEF RowsAreOld, RowOf
<1>5. ASSUME Expired(s) PROVE RowOf(s)'
  <2>1. newest[s] > 0 /\ row[s].status = "created"
    BY <1>4, <1>5 DEF RowOf, Expired, NoRow
  <2>2. s \notin troubled => newest[s] = 1
    <3>1. s \notin troubled => remote[s][newest[s]] = "created"
      BY <1>4, <2>1 DEF RowOf
    <3>2. newest[s] \in 2 .. Len(remote[s]) => remote[s][newest[s]] # "created"
      BY DEF SubscriptionInv, Begins
    <3>3. newest[s] = 1 \/ newest[s] \in 2 .. Len(remote[s])
      BY <1>1, <1>4, <2>1 DEF RowOf
    <3>4. QED
      BY <3>1, <3>2, <3>3
  <2>3. QED
    BY <1>4, <1>5, <2>1, <2>2 DEF RowOf, Expired
<1>6. ASSUME NEW snap \in 2 .. Len(remote[s]), Written(s, snap), remote' = remote, newest[s] > 0 PROVE RowOf(s)'
  <2>1. newest[s] <= Len(remote[s]) /\ Len(remote[s]) \in Nat /\ snap \in Nat
    BY <1>1, <1>4 DEF RowOf
  <2>2. /\ row'[s] # NoRow /\ row'[s].status = remote[s][snap] /\ newest'[s] \in {snap, newest[s]}
        /\ newest'[s] > 0 /\ newest'[s] <= Len(remote[s]) /\ (s \notin troubled' => newest'[s] = snap)
    BY <1>6, <2>1, <1>4 DEF Written
  <2>3. QED
    BY <1>6, <2>1, <2>2 DEF RowOf
<1>7. ASSUME NEW snap \in 1 .. Len(remote[s]), Inserted(s, snap), remote' = remote, newest[s] = 0, troubled' = troubled PROVE RowOf(s)'
  <2>1. row'[s] # NoRow /\ row'[s].status = remote[s][snap] /\ newest'[s] = snap
    BY <1>7 DEF Inserted
  <2>2. Len(remote[s]) \in Nat
    BY <1>1
  <2>3. QED
    BY <1>7, <2>1, <2>2 DEF RowOf
<1>8. ASSUME NEW j \in BillingJobs, Wrote(j) \/ WroteEvent(j) PROVE RowOf(s)'
  <2>1. call[j].sub \in Ids /\ call[j].snap \in 2 .. Len(remote[call[j].sub]) /\ Written(call[j].sub, call[j].snap) /\ remote' = remote
    BY <1>1, <1>8 DEF Wrote, WroteEvent, InPlace, BillingStep
  <2>2. CASE call[j].sub # s
    BY <1>3, <2>1, <2>2 DEF Written
  <2>3. CASE call[j].sub = s /\ newest[s] > 0
    BY <1>6, <2>1, <2>3
  <2>4. CASE call[j].sub = s /\ newest[s] = 0
    BY <1>3, <2>1, <2>4 DEF Written
  <2>5. QED
    BY <1>4, <2>2, <2>3, <2>4
<1>9. ASSUME NEW j \in BillingJobs, Created(j) \/ Adopted(j) PROVE RowOf(s)'
  <2>1. PICK snap \in {1, call[j].snap} : Inserted(call[j].sub, snap) /\ snap \in 1 .. Len(remote[call[j].sub])
    <3>1. CASE Created(j)
      <4>1. call[j].sub \in Ids /\ remote[call[j].sub] # <<>>
        BY <1>1, <3>1 DEF Created, BillingStep, InPlace
      <4>2. Len(remote[call[j].sub]) \in Nat \ {0}
        BY <1>1, <4>1
      <4>3. QED
        BY <3>1, <4>2 DEF Created
    <3>2. CASE Adopted(j)
      <4>1. call[j].snap \in 2 .. Len(remote[call[j].sub])
        BY <1>1, <3>2 DEF Adopted, BillingStep, InPlace
      <4>2. QED
        BY <3>2, <4>1 DEF Adopted
    <3>3. QED
      BY <1>9, <3>1, <3>2
  <2>2. call[j].sub \in Ids /\ remote' = remote /\ troubled' = troubled
    BY <1>1, <1>9 DEF Created, Adopted, BillingStep, InPlace
  <2>3. CASE call[j].sub # s
    BY <1>3, <2>1, <2>2, <2>3 DEF Inserted
  <2>4. CASE call[j].sub = s /\ newest[s] > 0
    BY <1>3, <2>1, <2>2, <2>4 DEF Inserted
  <2>5. CASE call[j].sub = s /\ newest[s] = 0
    BY <1>7, <2>1, <2>2, <2>5
  <2>6. QED
    BY <1>4, <2>3, <2>4, <2>5
<1>10. ASSUME NEW t \in Ids, t # s, Expired(t) PROVE RowOf(s)'
  BY <1>3, <1>10 DEF Expired
<1>11. ASSUME NEW j \in BillingJobs, Released(j) \/ Aborted(j) PROVE RowOf(s)'
  BY <1>3, <1>11 DEF Released, Aborted
<1>12. ASSUME NEW j \in BillingJobs, Asking(j) \/ Creating(j) \/ Fetched(j) \/ Claimed(j) PROVE RowOf(s)'
  BY <1>3, <1>12 DEF Asking, Creating, Fetched, Claimed, Rows
<1>13. ASSUME RazorpayStep \/ UNCHANGED <<remote, call, Rows, Told>> PROVE RowOf(s)'
  BY <1>3, <1>13 DEF RazorpayStep, Rows
<1>14. QED
  BY <1>5, <1>8, <1>9, <1>10, <1>11, <1>12, <1>13, BillingSteps DEF OfNoJob, OfJob

\* Every step leaves every request in place.
LEMMA PlaceKept ==
  ASSUME SubscriptionInv, [BillingNext]_billingVars, NEW i \in BillingJobs
  PROVE  InPlace(i)'
<1>1. InPlace(i) /\ RowsAreOld /\ newest \in [Ids -> Nat] /\ call[i] \in Requests
  BY DEF SubscriptionInv, SubscriptionShape
<1>2. ASSUME NEW s \in Ids
      PROVE  /\ Len(remote[s]) \in Nat /\ Len(remote'[s]) \in Nat /\ Len(remote[s]) <= Len(remote'[s])
             /\ remote[s] # <<>> => remote'[s] # <<>>
  <2>1. Len(remote[s]) \in Nat /\ Len(remote'[s]) \in Nat /\ Len(remote[s]) <= Len(remote'[s])
        /\ remote' \in [Ids -> Seq(Statuses)]
    BY SnapshotsStay
  <2>2. remote[s] # <<>> => Len(remote[s]) > 0
    BY DEF SubscriptionInv, SubscriptionShape
  <2>3. QED
    BY <2>1, <2>2
<1>3. ASSUME NEW s \in Ids PROVE newest[s] > 0 => newest'[s] > 0
  <2>1. newest' = newest \/ (\E t \in Ids : Inserted(t, 1) \/ \E snap \in 2 .. Len(remote[t]) : Inserted(t, snap) \/ Written(t, snap))
    <3>1. ASSUME NEW j \in BillingJobs, Created(j) \/ Wrote(j) \/ Adopted(j) \/ WroteEvent(j)
          PROVE \E t \in Ids : Inserted(t, 1) \/ \E snap \in 2 .. Len(remote[t]) : Inserted(t, snap) \/ Written(t, snap)
      BY <3>1 DEF Created, Wrote, Adopted, WroteEvent, SubscriptionInv, InPlace, BillingStep
    <3>2. QED
      BY <3>1, BillingSteps
         DEF OfNoJob, OfJob, RazorpayStep, Expired, Asking, Creating, Fetched, Claimed, Released, Aborted, Rows
  <2>2. newest[s] \in Nat
    BY <1>1
  <2>3. CASE newest' = newest
    BY <2>3
  <2>4. ASSUME NEW t \in Ids, NEW snap, Inserted(t, snap) PROVE newest[s] > 0 => newest'[s] > 0
    BY <2>2, <2>4 DEF Inserted
  <2>5. ASSUME NEW t \in Ids, NEW snap \in 2 .. Len(remote[t]), Written(t, snap) PROVE newest[s] > 0 => newest'[s] > 0
    <3>1. Len(remote[t]) \in Nat /\ snap > 0
      BY <1>2
    <3>2. QED
      BY <2>2, <2>5, <3>1 DEF Written
  <2>6. QED
    BY <2>1, <2>3, <2>4, <2>5
<1>4. CASE call'[i] = call[i] /\ (call[i].op = "subscribe" /\ call[i].at = "begin" => remote'[call[i].sub] = <<>>)
  <2>1. CASE call[i].op = "none"
    BY <1>1, <1>4, <2>1 DEF InPlace
  <2>2. CASE call[i].op # "none"
    <3>1. call[i].sub \in Ids /\ call[i].snap \in Nat
      BY <1>1, <2>2 DEF InPlace, Requests
    <3>2. QED
      BY <1>1, <1>2, <1>3, <1>4, <3>1 DEF InPlace
  <2>3. QED
    BY <2>1, <2>2
<1>5. ASSUME Ended(i) PROVE InPlace(i)'
  BY <1>5 DEF Ended, InPlace
<1>6. ASSUME Asking(i) PROVE InPlace(i)'
  BY <1>6 DEF Asking, Asked, InPlace
<1>7. ASSUME Creating(i) PROVE InPlace(i)'
  <2>1. call[i].sub \in Ids
    BY <1>1, <1>7 DEF Creating, BillingStep, InPlace
  <2>2. Len(remote'[call[i].sub]) # 0
    BY <1>2, <1>7, <2>1 DEF Creating, Grown
  <2>3. QED
    BY <1>7, <2>1, <2>2 DEF Creating, BillingStep, Went, InPlace
<1>8. ASSUME NEW snap \in 2 .. Len(remote[call[i].sub]), call[i].op \in {"verify", "cancel"}, Went(i, "update", snap), remote' = remote
      PROVE InPlace(i)'
  BY <1>1, <1>8 DEF Went, InPlace
<1>9. ASSUME Claimed(i) PROVE InPlace(i)'
  <2>1. CASE Went(i, "adopt", call[i].snap)
    BY <1>1, <1>9, <2>1 DEF Claimed, BillingStep, Went, InPlace
  <2>2. QED
    BY <1>5, <1>9, <2>1 DEF Claimed
<1>10. ASSUME Adopted(i) PROVE InPlace(i)'
  <2>1. call[i].sub \in Ids /\ call[i].snap \in 2 .. Len(remote[call[i].sub]) /\ call[i].snap \in Nat
    BY <1>1, <1>10 DEF Adopted, BillingStep, InPlace, Requests
  <2>2. newest'[call[i].sub] > 0
    BY <1>1, <1>10, <2>1 DEF Adopted, Inserted
  <2>3. QED
    BY <1>10, <2>1, <2>2 DEF Adopted, BillingStep, Went, InPlace
<1>11. ASSUME OfJob(i) PROVE InPlace(i)'
  BY <1>5, <1>6, <1>7, <1>8, <1>9, <1>10, <1>11 DEF OfJob, Created, Fetched, Wrote, WroteEvent, Released, Aborted
<1>12. ASSUME NEW j \in BillingJobs, j # i, OfJob(j) PROVE InPlace(i)'
  <2>1. call'[i] = call[i]
    BY <1>12 DEF OfJob, Asking, Creating, Created, Fetched, Wrote, Claimed, Adopted, WroteEvent, Released,
                 Aborted, Asked, Went, Ended, Alone
  <2>2. CASE ~ Creating(j)
    <3>1. remote' = remote
      BY <1>12, <2>2 DEF OfJob, Asking, Created, Fetched, Wrote, Claimed, Adopted, WroteEvent, Released, Aborted
    <3>2. call[i].op = "subscribe" /\ call[i].at = "begin" => remote[call[i].sub] = <<>>
      BY <1>1 DEF InPlace
    <3>3. QED
      BY <1>4, <2>1, <3>1, <3>2
  <2>3. CASE Creating(j)
    <3>1. call[i].op = "subscribe" => call[i].sub # call[j].sub /\ call[i].sub \in Ids
      BY <1>1, <1>12, <2>3 DEF Creating, BillingStep, SubscriptionInv, OneSubscribes, InPlace
    <3>2. call[i].op = "subscribe" /\ call[i].at = "begin" => remote'[call[i].sub] = <<>>
      BY <1>1, <2>3, <3>1 DEF Creating, Grown, InPlace
    <3>3. QED
      BY <1>4, <2>1, <3>2
  <2>4. QED
    BY <2>2, <2>3
<1>13. ASSUME OfNoJob PROVE InPlace(i)'
  <2>1. call' = call
    BY <1>13 DEF OfNoJob, RazorpayStep, Expired
  <2>2. call[i].op = "subscribe" /\ call[i].at = "begin" => remote'[call[i].sub] = <<>>
    <3> SUFFICES ASSUME call[i].op = "subscribe", call[i].at = "begin" PROVE remote'[call[i].sub] = <<>>
      OBVIOUS
    <3>1. call[i].sub \in Ids /\ remote[call[i].sub] = <<>>
      BY <1>1 DEF InPlace
    <3>2. CASE RazorpayStep
      BY <3>1, <3>2 DEF RazorpayStep, Grown
    <3>3. CASE remote' = remote
      BY <3>1, <3>3
    <3>4. QED
      BY <1>13, <3>2, <3>3 DEF OfNoJob, Expired
  <2>3. QED
    BY <1>4, <2>1, <2>2
<1>14. QED
  BY <1>11, <1>12, <1>13, BillingSteps

\* No two checkouts come to be of one subscription.
LEMMA OneSubscribesKept ==
  ASSUME SubscriptionInv, [BillingNext]_billingVars
  PROVE  OneSubscribes'
<1>1. OneSubscribes
  BY DEF SubscriptionInv
<1>2. ASSUME NEW j \in BillingJobs, OfJob(j), ~ Asking(j) PROVE OneSubscribes'
  <2>1. \A i \in BillingJobs : i # j => call'[i] = call[i]
    BY <1>2 DEF OfJob, Creating, Created, Fetched, Wrote, Claimed, Adopted, WroteEvent, Released,
                 Aborted, Went, Ended, Alone
  <2>2. call'[j].op = "subscribe" => call[j].op = "subscribe" /\ call'[j].sub = call[j].sub
    BY <1>2 DEF OfJob, Creating, Created, Fetched, Wrote, Claimed, Adopted, WroteEvent, Released,
                 Aborted, Went, Ended
  <2>3. QED
    BY <1>1, <2>1, <2>2 DEF OneSubscribes
<1>3. ASSUME NEW j \in BillingJobs, Asking(j) PROVE OneSubscribes'
  <2>1. \A i \in BillingJobs : i # j => call'[i] = call[i]
    BY <1>3 DEF Asking, Asked, Alone
  <2>2. call'[j].op = "subscribe" => \A i \in BillingJobs : call[i].op = "subscribe" => call[i].sub # call'[j].sub
    BY <1>3 DEF Asking, Asked
  <2>3. QED
    BY <1>1, <2>1, <2>2 DEF OneSubscribes
<1>4. ASSUME OfNoJob PROVE OneSubscribes'
  BY <1>1, <1>4 DEF OfNoJob, RazorpayStep, Expired, OneSubscribes
<1>5. QED
  BY <1>2, <1>3, <1>4, BillingSteps

\* An event that the step has nothing to do with.
HeldOf(s, n) ==
  /\ \A j \in BillingJobs : Holds(j, s, n) => <<s, n>> \in events /\ \A i \in BillingJobs : Holds(i, s, n) => i = j
  /\ s \notin troubled /\ <<s, n>> \in answered => <<s, n>> \in events
  /\ s \notin troubled /\ <<s, n>> \in events => newest[s] >= n \/ \E j \in BillingJobs : Holds(j, s, n)

\* It stays as it was.
LEMMA HeldStays ==
  ASSUME NEW s \in Ids, NEW n \in Nat, HeldOf(s, n), newest[s] \in Nat, newest'[s] \in Nat,
         \A i \in BillingJobs : Holds(i, s, n)' <=> Holds(i, s, n),
         <<s, n>> \in events' <=> <<s, n>> \in events, <<s, n>> \in answered' => <<s, n>> \in events,
         newest[s] <= newest'[s], s \in troubled => s \in troubled'
  PROVE  HeldOf(s, n)'
BY DEF HeldOf

\* Rows are only ever written from newer snapshots, unless that is noted.
LEMMA TroubleStays ==
  ASSUME SubscriptionInv, [BillingNext]_billingVars, NEW s \in Ids
  PROVE  newest[s] \in Nat /\ newest'[s] \in Nat /\ newest[s] <= newest'[s] /\ (s \in troubled => s \in troubled')
<1>1. newest[s] \in Nat /\ newest \in [Ids -> Nat]
  BY DEF SubscriptionInv, SubscriptionShape
<1>2. CASE newest' = newest
  <2>1. s \in troubled => s \in troubled'
    BY BillingSteps
       DEF OfNoJob, OfJob, RazorpayStep, Expired, Asking, Creating, Created, Fetched, Wrote, Claimed, Adopted, WroteEvent,
           Released, Aborted, Rows, Written
  <2>2. QED
    BY <1>1, <1>2, <2>1
<1>3. newest' = newest \/ \E j \in BillingJobs : Wrote(j) \/ WroteEvent(j) \/ Created(j) \/ Adopted(j)
  BY BillingSteps
     DEF OfNoJob, OfJob, RazorpayStep, Expired, Asking, Creating, Fetched, Claimed, Released, Aborted, Rows
<1>4. ASSUME NEW t \in Ids, NEW snap \in Nat, Written(t, snap) PROVE newest'[s] \in Nat /\ newest[s] <= newest'[s]
  <2>1. newest'[s] \in Nat
    BY <1>4 DEF Written
  <2>2. newest'[s] = newest[s] \/ newest'[s] = (IF snap > newest[s] THEN snap ELSE newest[s])
    BY <1>1, <1>4 DEF Written
  <2>3. QED
    BY <1>1, <2>1, <2>2
<1>5. ASSUME NEW j \in BillingJobs, Wrote(j) \/ WroteEvent(j)
      PROVE newest'[s] \in Nat /\ newest[s] <= newest'[s] /\ troubled \subseteq troubled'
  <2>1. call[j].sub \in Ids /\ call[j].snap \in Nat /\ Written(call[j].sub, call[j].snap)
    BY <1>5 DEF SubscriptionInv, SubscriptionShape, Requests, InPlace, Wrote, WroteEvent, BillingStep
  <2>2. QED
    BY <1>4, <2>1 DEF Written
<1>6. ASSUME NEW j \in BillingJobs, Created(j) \/ Adopted(j)
      PROVE newest'[s] \in Nat /\ newest[s] <= newest'[s] /\ troubled \subseteq troubled'
  <2>1. call[j].sub \in Ids /\ troubled' = troubled
    BY <1>6 DEF SubscriptionInv, InPlace, Created, Adopted, BillingStep
  <2>2. PICK snap : Inserted(call[j].sub, snap)
    BY <1>6 DEF Created, Adopted
  <2>3. newest'[s] \in Nat /\ (newest[s] = 0 \/ newest'[s] = newest[s])
    BY <1>1, <2>1, <2>2 DEF Inserted
  <2>4. QED
    BY <1>1, <2>1, <2>3
<1>7. QED
  BY <1>1, <1>2, <1>3, <1>5, <1>6

\* Every step keeps claimed events with their handlers, or in the rows.
LEMMA HeldKept ==
  ASSUME SubscriptionInv, [BillingNext]_billingVars
  PROVE  Held'
<1>1. SUFFICES ASSUME NEW s \in Ids, NEW n \in Nat PROVE HeldOf(s, n)'
  BY DEF Held, HeldOf
<1>2. HeldOf(s, n)
  BY DEF SubscriptionInv, Held, HeldOf
<1>3. newest[s] \in Nat /\ newest'[s] \in Nat /\ newest[s] <= newest'[s] /\ (s \in troubled => s \in troubled')
  BY TroubleStays
<1>4. CASE /\ \A i \in BillingJobs : Holds(i, s, n)' <=> Holds(i, s, n)
           /\ <<s, n>> \in events' <=> <<s, n>> \in events
           /\ <<s, n>> \in answered' => <<s, n>> \in events \/ <<s, n>> \in answered
  BY <1>2, <1>3, <1>4 DEF HeldOf
<1>5. ASSUME OfNoJob PROVE HeldOf(s, n)'
  BY <1>4, <1>5 DEF OfNoJob, RazorpayStep, Expired, Told, Holds
<1>6. ASSUME NEW j \in BillingJobs, OfJob(j) PROVE HeldOf(s, n)'
  <2>1. \A i \in BillingJobs : i # j => (Holds(i, s, n)' <=> Holds(i, s, n))
    <3>1. \A i \in BillingJobs : i # j => call'[i] = call[i]
      BY <1>6 DEF OfJob, Asking, Creating, Created, Fetched, Wrote, Claimed, Adopted, WroteEvent, Released,
                 Aborted, Asked, Went, Ended, Alone
    <3>2. QED
      BY <3>1 DEF Holds
  <2>2. CASE Asking(j) \/ Creating(j) \/ Created(j) \/ Fetched(j) \/ Wrote(j) \/ Adopted(j)
    <3>1. Holds(j, s, n)' <=> Holds(j, s, n)
      BY <2>2 DEF Asking, Creating, Created, Fetched, Wrote, Adopted, BillingStep, Asked, Went, Ended, Holds
    <3>2. UNCHANGED <<events, answered>>
      BY <2>2 DEF Asking, Creating, Created, Fetched, Wrote, Adopted, Told
    <3>3. QED
      BY <1>4, <2>1, <3>1, <3>2
  <2>3. CASE Claimed(j)
    <3>1. ~ Holds(j, s, n)
      BY <2>3 DEF Claimed, BillingStep, Holds
    <3>2. CASE <<call[j].sub, call[j].snap>> \in events
      <4>1. ~ Holds(j, s, n)' /\ events' = events /\ answered' = answered \union {<<call[j].sub, call[j].snap>>}
        BY <2>3, <3>2 DEF Claimed, Ended, Holds
      <4>2. QED
        BY <1>4, <2>1, <3>1, <3>2, <4>1
    <3>3. CASE <<call[j].sub, call[j].snap>> \notin events
      <4>1. /\ Went(j, "adopt", call[j].snap) /\ events' = events \union {<<call[j].sub, call[j].snap>>}
            /\ answered' = answered /\ call[j].op = "webhook" /\ newest' = newest /\ troubled' = troubled
        BY <2>3, <3>3 DEF Claimed, BillingStep, Rows
      <4>2. CASE s = call[j].sub /\ n = call[j].snap
        <5>1. Holds(j, s, n)' /\ <<s, n>> \in events' /\ <<s, n>> \notin events
          BY <3>3, <4>1, <4>2 DEF Went, Holds
        <5>2. \A i \in BillingJobs : ~ Holds(i, s, n)
          BY <1>2, <5>1 DEF HeldOf
        <5>3. QED
          BY <2>1, <5>1, <5>2 DEF HeldOf
      <4>3. CASE ~ (s = call[j].sub /\ n = call[j].snap)
        <5>1. ~ Holds(j, s, n)' /\ <<s, n>> # <<call[j].sub, call[j].snap>>
          BY <4>1, <4>3 DEF Went, Holds
        <5>2. QED
          BY <1>4, <2>1, <3>1, <4>1, <5>1
      <4>4. QED
        BY <4>2, <4>3
    <3>4. QED
      BY <3>2, <3>3
  <2>4. CASE WroteEvent(j) \/ Released(j) \/ Aborted(j)
    <3>1. ~ Holds(j, s, n)'
      BY <2>4 DEF WroteEvent, Released, Aborted, Ended, Holds
    <3>2. CASE ~ Holds(j, s, n)
      <4>1. CASE WroteEvent(j) \/ Released(j)
        <5>1. <<s, n>> # <<call[j].sub, call[j].snap>>
          BY <3>2, <4>1 DEF WroteEvent, Released, BillingStep, Holds
        <5>2. QED
          BY <1>4, <2>1, <3>1, <3>2, <4>1, <5>1 DEF WroteEvent, Released
      <4>2. CASE Aborted(j)
        BY <1>4, <2>1, <3>1, <3>2, <4>2 DEF Aborted, Told
      <4>3. QED
        BY <2>4, <4>1, <4>2
    <3>3. CASE Holds(j, s, n)
      <4>1. /\ call[j].op = "webhook" /\ call[j].at # "begin" /\ call[j].sub = s /\ call[j].snap = n
            /\ <<s, n>> \in events /\ \A i \in BillingJobs : ~ Holds(i, s, n)'
        BY <1>2, <2>1, <3>1, <3>3 DEF HeldOf, Holds
      <4>2. CASE WroteEvent(j)
        <5>1. newest[s] > 0 /\ Written(s, n) /\ events' = events
          BY <4>1, <4>2 DEF WroteEvent, BillingStep, SubscriptionInv, InPlace
        <5>2. newest'[s] >= n
          BY <1>3, <5>1 DEF Written
        <5>3. QED
          BY <1>3, <4>1, <5>1, <5>2 DEF HeldOf
      <4>3. CASE Released(j)
        <5>1. <<s, n>> \notin events' /\ answered' = answered /\ (<<s, n>> \in answered => s \in troubled')
          BY <4>1, <4>3 DEF Released
        <5>2. QED
          BY <4>1, <5>1 DEF HeldOf
      <4>4. CASE Aborted(j)
        <5>1. s \in troubled'
          BY <4>1, <4>4 DEF Aborted
        <5>2. QED
          BY <4>1, <5>1 DEF HeldOf
      <4>5. QED
        BY <2>4, <4>2, <4>3, <4>4
    <3>4. QED
      BY <3>2, <3>3
  <2>5. QED
    BY <1>6, <2>2, <2>3, <2>4 DEF OfJob
<1>7. QED
  BY <1>5, <1>6, BillingSteps

\* Every step keeps the shape of the state.
LEMMA SubscriptionShapeKept ==
  ASSUME SubscriptionInv, [BillingNext]_billingVars
  PROVE  SubscriptionShape'
<1> SubscriptionShape /\ \A j \in BillingJobs : InPlace(j)
  BY DEF SubscriptionInv
<1>1. remote' \in [Ids -> Seq(Statuses)]
  <2>1. 1 \in Ids
    BY SubscriptionAssumption DEF Ids
  <2>2. QED
    BY <2>1, SnapshotsStay
<1>2. /\ row' \in [Ids -> [status : Statuses \union {"none", "abandoned"}, cancels : BOOLEAN]]
      /\ newest' \in [Ids -> Nat] /\ troubled' \subseteq Ids
  <2>1. CASE UNCHANGED Rows
    BY <2>1 DEF Rows, SubscriptionShape
  <2>2. ASSUME NEW j \in BillingJobs, Created(j) \/ Wrote(j) \/ Adopted(j) \/ WroteEvent(j)
        PROVE  /\ row' \in [Ids -> [status : Statuses \union {"none", "abandoned"}, cancels : BOOLEAN]]
               /\ newest' \in [Ids -> Nat] /\ troubled' \subseteq Ids
    BY <2>2 DEF Created, Wrote, Adopted, WroteEvent, Inserted, Written, SubscriptionShape
  <2>3. ASSUME NEW j \in BillingJobs, Released(j) \/ Aborted(j)
        PROVE  row' = row /\ newest' = newest /\ troubled' \subseteq Ids
    <3>1. call[j].op # "none"
      BY <2>3 DEF Released, Aborted
    <3>2. call[j].sub \in Ids
      BY <3>1 DEF InPlace
    <3>3. QED
      BY <2>3, <3>2 DEF Released, Aborted, SubscriptionShape
  <2>4. ASSUME NEW s \in Ids, Expired(s)
        PROVE  /\ row' \in [Ids -> [status : Statuses \union {"none", "abandoned"}, cancels : BOOLEAN]]
               /\ newest' \in [Ids -> Nat] /\ troubled' \subseteq Ids
    BY <2>4 DEF Expired, SubscriptionShape
  <2>5. \/ UNCHANGED Rows \/ \E s \in Ids : Expired(s)
        \/ \E j \in BillingJobs : Created(j) \/ Wrote(j) \/ Adopted(j) \/ WroteEvent(j) \/ Released(j) \/ Aborted(j)
    BY BillingSteps DEF OfNoJob, OfJob, RazorpayStep, Asking, Creating, Fetched, Claimed
  <2>6. QED
    BY <2>1, <2>2, <2>3, <2>4, <2>5 DEF SubscriptionShape
<1>3. answered' \subseteq Ids \X Nat /\ events' \subseteq Ids \X Nat
  <2>1. CASE UNCHANGED Told
    BY <2>1 DEF Told, SubscriptionShape
  <2>2. ASSUME NEW j \in BillingJobs, Claimed(j) \/ WroteEvent(j) \/ Released(j)
        PROVE  answered' \subseteq Ids \X Nat /\ events' \subseteq Ids \X Nat
    <3>1. <<call[j].sub, call[j].snap>> \in Ids \X Nat
      BY <2>2 DEF Claimed, WroteEvent, Released, BillingStep, InPlace, SubscriptionShape, Requests
    <3>2. QED
      BY <2>2, <3>1 DEF Claimed, WroteEvent, Released, SubscriptionShape
  <2>3. UNCHANGED Told \/ \E j \in BillingJobs : Claimed(j) \/ WroteEvent(j) \/ Released(j)
    BY BillingSteps
       DEF OfNoJob, OfJob, RazorpayStep, Expired, Asking, Creating, Created, Fetched, Wrote, Adopted, Aborted, Told
  <2>4. QED
    BY <2>1, <2>2, <2>3
<1>4. call' \in [BillingJobs -> Requests]
  <2>1. call' = call \/ \E j \in BillingJobs : Alone(j)
    BY BillingSteps
       DEF OfNoJob, OfJob, RazorpayStep, Expired, Asking, Creating, Created, Fetched, Wrote, Claimed, Adopted, WroteEvent,
           Released, Aborted, Asked, Went, Ended
  <2>2. QED
    BY <2>1 DEF Alone, SubscriptionShape
<1>5. cancelling' \subseteq Ids /\ over' \subseteq Ids /\ billingFaults' \in Nat
  <2> billingFaults \in Nat /\ cancelling \subseteq Ids /\ over \subseteq Ids
    BY DEF SubscriptionShape
  <2>1. ASSUME NEW s \in Ids, RazorpayMoves(s) \/ ExpireStaleCreated(s)
        PROVE  cancelling' \subseteq Ids /\ over' \subseteq Ids /\ billingFaults' \in Nat
    BY <2>1 DEF RazorpayMoves, ExpireStaleCreated
  <2>2. ASSUME NEW j \in BillingJobs, NEW s \in Ids,
               Subscribe(j, s) \/ VerifyCheckout(j, s) \/ Cancel(j, s) \/ \E snap \in 2 .. MaxSnapshots : SubscriptionEvent(j, s, snap)
        PROVE  cancelling' \subseteq Ids /\ over' \subseteq Ids /\ billingFaults' \in Nat
    BY <2>2 DEF Subscribe, VerifyCheckout, Cancel, SubscriptionEvent
  <2>3. ASSUME NEW j \in BillingJobs, CancelAtRazorpay(j)
        PROVE  cancelling' \subseteq Ids /\ over' \subseteq Ids /\ billingFaults' \in Nat
    <3>1. call[j].sub \in Ids
      BY <2>3 DEF CancelAtRazorpay, BillingStep, InPlace
    <3>2. QED
      BY <2>3, <3>1 DEF CancelAtRazorpay
  <2>4. ASSUME NEW j \in BillingJobs,
               \/ CreateAtRazorpay(j) \/ InsertCreated(j) \/ FetchSubscription(j)
               \/ WriteRow(j) \/ ClaimEvent(j) \/ Adopt(j) \/ WriteFromEvent(j) \/ ReleaseEvent(j) \/ Abort(j)
        PROVE  cancelling' \subseteq Ids /\ over' \subseteq Ids /\ billingFaults' \in Nat
    BY <2>4 DEF CreateAtRazorpay, InsertCreated, FetchSubscription, WriteRow, ClaimEvent, Adopt, WriteFromEvent,
                ReleaseEvent, Abort
  <2>5. CASE UNCHANGED billingVars
    BY <2>5 DEF billingVars
  <2>6. QED
    BY <2>1, <2>2, <2>3, <2>4, <2>5 DEF BillingNext
<1>6. QED
  BY <1>1, <1>2, <1>3, <1>4, <1>5 DEF SubscriptionShape

\* The initial state.
LEMMA SubscriptionsStart == BillingInit => SubscriptionInv
<1> SUFFICES ASSUME BillingInit PROVE SubscriptionInv
  OBVIOUS
<1>1. NoRow \in [status : Statuses \union {"none", "abandoned"}, cancels : BOOLEAN] /\ NoRow.status = "none"
  BY DEF NoRow
<1>2. NoBillingJob \in Requests /\ NoBillingJob.op = "none" /\ NoBillingJob.sub = 0
  BY DEF NoBillingJob, Requests
<1>3. \A s \in Ids : remote[s] = <<>> /\ row[s] = NoRow /\ newest[s] = 0
  BY DEF BillingInit
<1>4. \A j \in BillingJobs : call[j] = NoBillingJob
  BY DEF BillingInit
<1>5. SubscriptionShape
  BY <1>1, <1>2 DEF BillingInit, SubscriptionShape
<1>6. Begins
  BY <1>3 DEF Begins
<1>7. RowsAreOld
  BY <1>1, <1>3 DEF RowsAreOld
<1>8. (\A j \in BillingJobs : InPlace(j)) /\ OneSubscribes
  BY <1>2, <1>4 DEF InPlace, OneSubscribes
<1>9. Held
  BY <1>2, <1>4 DEF BillingInit, Held, Holds
<1>10. QED
  BY <1>5, <1>6, <1>7, <1>8, <1>9 DEF SubscriptionInv

\* The invariant holds in every reachable state.
LEMMA SubscriptionInvariant == BillingSpec => []SubscriptionInv
<1>1. SubscriptionInv /\ [BillingNext]_billingVars => SubscriptionInv'
  BY SubscriptionShapeKept, BeginsKept, RowsKept, PlaceKept, OneSubscribesKept, HeldKept DEF SubscriptionInv
<1>2. QED
  BY <1>1, SubscriptionsStart, PTL DEF BillingSpec

\* A plan is granted only by a subscription that was paid for, and a row whose
\* events are all answered, none lost and none overtaken, says what Razorpay
\* says: for any number of subscriptions, requests, snapshots and faults.
THEOREM SubscriptionFollowsRazorpay == BillingSpec => []RowFollowsRazorpay
<1>1. SubscriptionInv => RowFollowsRazorpay
  <2> SUFFICES ASSUME SubscriptionInv PROVE RowFollowsRazorpay
    OBVIOUS
  <2> SubscriptionShape /\ Begins /\ RowsAreOld
    BY DEF SubscriptionInv
  <2>1. CurrentSubscription # 0 => Len(remote[CurrentSubscription]) > 1
    BY CurrentIsGranted, GrantedIsPaid
  <2>2. ASSUME NEW s \in Ids, AtRest(s), s \notin troubled, Len(remote[s]) > 1 PROVE row[s].status = Status(s)
    <3> DEFINE n == Len(remote[s])
    <3>1. n \in Nat /\ n \in 2 .. n /\ newest[s] \in Nat
      BY <2>2 DEF SubscriptionShape
    <3>2. <<s, n>> \in answered /\ \A j \in BillingJobs : ~ Holds(j, s, n)
      BY <2>2, <3>1 DEF AtRest, Holds
    <3>3. newest[s] >= n
      BY <2>2, <3>1, <3>2 DEF SubscriptionInv, Held
    <3>4. newest[s] = n
      BY <3>1, <3>3 DEF RowsAreOld
    <3>5. row[s].status = remote[s][n]
      BY <2>2, <3>1, <3>4 DEF RowsAreOld
    <3>6. QED
      BY <3>5 DEF Status, Last
  <2>3. QED
    BY <2>1, <2>2 DEF RowFollowsRazorpay
<1>2. QED
  BY <1>1, SubscriptionInvariant, PTL

\* The shape of the rows, the events and the requests is kept by every step.
THEOREM SubscriptionTypeCorrect == BillingSpec => []SubscriptionShape
<1>1. SubscriptionInv => SubscriptionShape
  BY DEF SubscriptionInv
<1>2. QED
  BY <1>1, SubscriptionInvariant, PTL

-----------------------------------------------------------------------------
(***************************************************************************)
(* Wallet, for any providers, calls, faults and trips of the circuit       *)
(* breakers, any weights and any prices.  WalletInv, in its last section,  *)
(* says why the invariants hold: no call is charged before it was served,  *)
(* none twice, and the provider that served it at its price.               *)
(***************************************************************************)
Entry == [call : Nat \ {0}, provider : Providers]

\* What Charged adds up, entry by entry.
LEMMA ChargedRuns ==
  ASSUME NEW entries \in Seq(Entry)
  PROVE  \E g \in [0 .. Len(entries) -> Int] :
           /\ g[0] = 0 /\ Charged(entries) = g[Len(entries)]
           /\ \A n \in 1 .. Len(entries) : g[n] = g[n - 1] + Price[entries[n].provider]
<1> DEFINE N == Len(entries)
           step == [x \in Int \X (1 .. N) |-> x[1] + Price[entries[x[2]].provider]]
           sum[n \in 0 .. N] == IF n = 0 THEN 0 ELSE sum[n - 1] + Price[entries[n].provider]
<1>1. N \in Nat /\ \A n \in 1 .. N : Price[entries[n].provider] \in Int
  <2>1. N \in Nat /\ \A n \in 1 .. N : entries[n] \in Entry
    OBVIOUS
  <2>2. \A e \in Entry : Price[e.provider] \in Int
    BY WalletAssumption DEF Entry, Providers
  <2>3. QED
    BY <2>1, <2>2
<1>2. step \in [Int \X (1 .. N) -> Int]
  BY <1>1
<1>3. PICK g : IsRun(g, Int, 0, N, step)
  <2> HIDE DEF N, step
  <2>1. 0 \in Int
    OBVIOUS
  <2>2. QED
    BY <1>1, <1>2, <2>1, RunningFunction, Zenon
<1> g \in [0 .. N -> Int] /\ g[0] = 0
  BY <1>3 DEF IsRun
<1>4. ASSUME NEW n \in 1 .. N PROVE g[n] = g[n - 1] + Price[entries[n].provider]
  <2>1. n \in 0 .. N /\ n # 0 /\ g[n - 1] \in Int
    BY <1>1
  <2>2. g[n] = step[<<g[n - 1], n>>]
    BY <1>3 DEF IsRun
  <2>3. QED
    BY <2>1, <2>2
<1> HIDE DEF step
<1>5. g = [n \in 0 .. N |-> IF n = 0 THEN 0 ELSE g[n - 1] + Price[entries[n].provider]]
  BY <1>1, <1>3, <1>4
<1>6. sum = [n \in 0 .. N |-> IF n = 0 THEN 0 ELSE sum[n - 1] + Price[entries[n].provider]]
  <2> HIDE DEF N
  <2>1. QED
    BY <1>5, Zenon
<1>7. Charged(entries) = sum[N]
  BY Zenon DEF Charged
<1> HIDE DEF sum, N
<1> DEFINE T == {n \in Nat : n <= N => sum[n] = g[n]}
<1>8. Nat \subseteq T
  <2>1. 0 \in T
    BY <1>1, <1>6
  <2>4. \A n \in 1 .. N : sum[n] = sum[n - 1] + Price[entries[n].provider]
    BY <1>1, <1>6
  <2>2. ASSUME NEW n \in Nat, n \in T PROVE n + 1 \in T
    <3> SUFFICES ASSUME n + 1 <= N PROVE sum[n + 1] = g[n + 1]
      OBVIOUS
    <3>1. n + 1 \in 1 .. N /\ n + 1 \in 0 .. N /\ n + 1 # 0 /\ n + 1 - 1 = n
      BY <1>1
    <3>2. sum[n + 1] = sum[n] + Price[entries[n + 1].provider]
      BY <2>4, <3>1
    <3>3. sum[n] = g[n]
      BY <1>1, <2>2
    <3>4. QED
      BY <1>4, <3>1, <3>2, <3>3
  <2> HIDE DEF T
  <2>3. QED
    BY <2>1, <2>2, SetInduction
<1>9. sum[N] = g[N]
  BY <1>1, <1>8
<1>10. QED
  BY <1>3, <1>4, <1>7, <1>9 DEF N

-----------------------------------------------------------------------------
(***************************************************************************)
(* The shape of the state.                                                 *)
(***************************************************************************)
Places == {"idle", "check", "route", "call", "settle", "key", "more", "unavailable"}
Spending == [no : Nat, kind : {"none", "api", "chat"}, at : Places, routes : Seq(Providers),
             limited : BOOLEAN, by : Providers \union {"nobody"}, started : BOOLEAN]

WalletShape ==
  /\ balance \in Int /\ ledger \in Seq(Entry) /\ keyUsed \in Nat /\ keyOn \in BOOLEAN
  /\ inflight \in Int /\ health \in [Providers -> [fails : Nat, open : BOOLEAN]]
  /\ spend \in [Calls -> Spending] /\ callsMade \in Nat /\ walletFaults \in Nat
  /\ tried \in Seq(Seq(Providers)) /\ Len(tried) = callsMade
  /\ served \subseteq (1 .. callsMade) \X Providers /\ unbilled \subseteq Nat

(***************************************************************************)
(* Where a call stands: what its number, its kind and its place go with.   *)
(***************************************************************************)
Standing(c) ==
  /\ spend[c].at = "idle" => spend[c] = NoCall
  /\ spend[c].at # "idle" => spend[c].no \in 1 .. callsMade /\ spend[c].kind # "none"
  /\ spend[c].started <=> spend[c].at \in {"settle", "key", "more"}
  /\ spend[c].at = "key" => spend[c].kind = "api"

\* A call that was not served yet, and the one it was served for.
Unserved(c) == spend[c].at # "idle" /\ ~spend[c].started
Numbers ==
  /\ \A c, d \in Calls : spend[c].at # "idle" /\ spend[c].no = spend[d].no => c = d
  /\ \A c \in Calls : Unserved(c) => \A s \in served : s[1] # spend[c].no
  /\ \A c \in Calls : spend[c].started => spend[c].by \in Providers /\ <<spend[c].no, spend[c].by>> \in served

\* The providers a call is still to try, with those it tried, are all.
Untried(c) ==
  \/ spend[c].at = "call"
  \/ spend[c].at = "check" /\ spend[c].kind = "chat"
Trying ==
  /\ \A c \in Calls : Untried(c) =>
       /\ spend[c].routes # <<>> /\ IsInjective(spend[c].routes)
       /\ ToSet(spend[c].routes) \union ToSet(tried[spend[c].no]) = Providers
       /\ ToSet(spend[c].routes) \intersect ToSet(tried[spend[c].no]) = {}
  /\ \A c \in Calls : Unserved(c) /\ ~Untried(c) /\ spend[c].at # "unavailable" => tried[spend[c].no] = <<>>
  /\ EveryProviderIsTried

\* The ledger: no entry yet of a call that is to be settled.
Books ==
  /\ balance = Credit - Charged(ledger)
  /\ \A i \in DOMAIN ledger : <<ledger[i].call, ledger[i].provider>> \in served
  /\ \A i, k \in DOMAIN ledger : ledger[i] = ledger[k] => i = k
  /\ \A s \in served : \/ \E i \in DOMAIN ledger : ledger[i] = [call |-> s[1], provider |-> s[2]]
                       \/ s[1] \in unbilled \/ \E c \in Under(s[1]) : CallAt(c, "settle")
  /\ \A c \in Calls : CallAt(c, "settle") => \A i \in DOMAIN ledger : ledger[i].call # spend[c].no

\* k[n] is what of the first n entries the key shows: of each all or nothing,
\* and nothing of those whose call is about to add them.
KeyShows(k) ==
  /\ k \in [0 .. Len(ledger) -> Nat] /\ k[0] = 0 /\ k[Len(ledger)] = keyUsed
  /\ \A n \in 1 .. Len(ledger) : k[n] - k[n - 1] \in {0, Price[ledger[n].provider]}
  /\ \A c \in Calls : CallAt(c, "key") =>
       \E n \in 1 .. Len(ledger) :
          ledger[n] = [call |-> spend[c].no, provider |-> spend[c].by] /\ k[n] = k[n - 1]
KeyIsCharged == \E k : KeyShows(k)

BeingServed == {c \in Calls : spend[c].kind = "api" /\ spend[c].at \in {"route", "call"}}
Counted == inflight = Cardinality(BeingServed)

WalletInv ==
  /\ WalletShape /\ (\A c \in Calls : Standing(c))
  /\ Numbers /\ Trying /\ Books /\ KeyIsCharged /\ Counted

-----------------------------------------------------------------------------
(***************************************************************************)
(* What the steps do to a call, field by field.                            *)
(***************************************************************************)
Others(c) == spend' \in [Calls -> Spending] /\ \A d \in Calls : d # c => spend'[d] = spend[d]
SameFor(c) ==
  /\ spend'[c].no = spend[c].no /\ spend'[c].kind = spend[c].kind
  /\ spend'[c].by = spend[c].by /\ spend'[c].started = spend[c].started
Gone(c) == Others(c) /\ spend'[c] = NoCall
Moved(c, place) == Others(c) /\ SameFor(c) /\ spend'[c].at = place /\ spend'[c].routes = spend[c].routes

\* The empty call is a call.
LEMMA NoCallShape ==
  /\ NoCall \in Spending /\ NoCall.at = "idle" /\ NoCall.no = 0 /\ NoCall.kind = "none"
  /\ NoCall.started = FALSE /\ NoCall.by = "nobody" /\ NoCall.routes = <<>>
BY DEF NoCall, Spending, Places

\* A call that leaves.
LEMMA GoneFields ==
  ASSUME WalletShape, NEW c \in Calls, spend' = [spend EXCEPT ![c] = NoCall]
  PROVE  Gone(c)
<1>1. spend \in [Calls -> Spending]
  BY DEF WalletShape
<1>2. QED
  BY <1>1, NoCallShape DEF Gone, Others

\* A call that goes to its next place.
LEMMA MovedFields ==
  ASSUME WalletShape, NEW c \in Calls, NEW place \in Places, MoveTo(c, place)
  PROVE  Moved(c, place)
<1>1. spend \in [Calls -> Spending] /\ spend' = [spend EXCEPT ![c].at = place]
  BY DEF WalletShape, MoveTo
<1>2. spend[c] \in Spending /\ [spend[c] EXCEPT !.at = place] \in Spending
  BY <1>1 DEF Spending
<1>3. spend' \in [Calls -> Spending] /\ spend'[c] = [spend[c] EXCEPT !.at = place]
  BY <1>1, <1>2
<1>4. \A d \in Calls : d # c => spend'[d] = spend[d]
  BY <1>1
<1>5. SameFor(c) /\ spend'[c].at = place /\ spend'[c].routes = spend[c].routes
  BY <1>2, <1>3 DEF Spending, SameFor
<1>6. QED
  BY <1>3, <1>4, <1>5 DEF Moved, Others

\* A call that begins.
Begun(c) ==
  /\ spend[c].at = "idle" /\ Others(c) /\ spend'[c].no = callsMade + 1
  /\ \/ spend'[c].kind = "api" /\ spend'[c].at = "check"
     \/ spend'[c].kind = "chat" /\ spend'[c].at = "route"
  /\ spend'[c].routes = spend[c].routes /\ spend'[c].by = spend[c].by /\ spend'[c].started = spend[c].started
  /\ callsMade' = callsMade + 1 /\ tried' = Append(tried, <<>>)
  /\ UNCHANGED <<balance, ledger, keyUsed, keyOn, inflight, health, walletFaults, served, unbilled>>

\* Authenticate and ChatTurn begin a call.
LEMMA BegunFields ==
  ASSUME WalletShape, NEW c \in Calls, Authenticate(c) \/ ChatTurn(c)
  PROVE  Begun(c)
<1>1. spend \in [Calls -> Spending] /\ callsMade + 1 \in Nat
  BY DEF WalletShape
<1>2. ASSUME Authenticate(c) PROVE Begun(c)
  <2> DEFINE r == [spend[c] EXCEPT !.no = callsMade + 1, !.kind = "api", !.at = "check", !.limited = KeyLimitReached]
  <2>1. KeyLimitReached \in BOOLEAN
    BY DEF KeyLimitReached
  <2>2. spend[c] \in Spending /\ r \in Spending
    BY <1>1, <2>1 DEF Spending, Places
  <2>3. spend' = [spend EXCEPT ![c] = r]
    BY <1>1, <1>2 DEF Authenticate
  <2>4. /\ r.no = callsMade + 1 /\ r.kind = "api" /\ r.at = "check" /\ r.routes = spend[c].routes
        /\ r.by = spend[c].by /\ r.started = spend[c].started
    BY <2>2 DEF Spending
  <2> HIDE DEF r
  <2>5. Others(c) /\ spend'[c] = r
    BY <1>1, <2>2, <2>3 DEF Others
  <2>6. QED
    BY <1>2, <2>4, <2>5 DEF Begun, Authenticate, CallAt
<1>3. ASSUME ChatTurn(c) PROVE Begun(c)
  <2> DEFINE r == [spend[c] EXCEPT !.no = callsMade + 1, !.kind = "chat", !.at = "route"]
  <2>2. spend[c] \in Spending /\ r \in Spending
    BY <1>1 DEF Spending, Places
  <2>3. spend' = [spend EXCEPT ![c] = r]
    BY <1>1, <1>3 DEF ChatTurn
  <2>4. /\ r.no = callsMade + 1 /\ r.kind = "chat" /\ r.at = "route" /\ r.routes = spend[c].routes
        /\ r.by = spend[c].by /\ r.started = spend[c].started
    BY <2>2 DEF Spending
  <2> HIDE DEF r
  <2>5. Others(c) /\ spend'[c] = r
    BY <1>1, <2>2, <2>3 DEF Others
  <2>6. QED
    BY <1>3, <2>4, <2>5 DEF Begun, ChatTurn, CallAt
<1>4. QED
  BY <1>2, <1>3

\* What the healthy and the tripped, and the one that sticks, come to: every
\* provider once.
LEMMA OrderIsWhole ==
  ASSUME NEW p
  PROVE  LET ranking == Healthy \o Tripped IN
         /\ ranking \in Seq(Providers) /\ IsInjective(ranking) /\ ToSet(ranking) = Providers
         /\ Sticking(ranking, p) \in Seq(Providers) /\ IsInjective(Sticking(ranking, p))
         /\ ToSet(Sticking(ranking, p)) = Providers
<1> DEFINE ranking == Healthy \o Tripped
           H == {q \in Providers : ~health[q].open}
           O == {q \in Providers : health[q].open}
<1>1. IsInjective(Offers) /\ Offers \in Seq(Providers) /\ ToSet(Offers) = Providers
  BY WalletAssumption DEF Providers
<1>2. Healthy = Only(Offers, H) /\ Tripped = Only(Offers, O)
  BY DEF Healthy, Tripped
<1>3. H \union O = Providers /\ H \intersect O = {} /\ H \subseteq Providers /\ O \subseteq Providers
  OBVIOUS
<1> HIDE DEF H, O
<1>4. Healthy \in Seq(Providers) /\ IsInjective(Healthy) /\ ToSet(Healthy) = H
  <2>1. /\ Only(Offers, H) \in Seq(Providers) /\ IsInjective(Only(Offers, H))
        /\ ToSet(Only(Offers, H)) = ToSet(Offers) \intersect H
    BY <1>1, OnlySet, Zenon
  <2>2. QED
    BY <1>1, <1>2, <1>3, <2>1
<1>5. Tripped \in Seq(Providers) /\ IsInjective(Tripped) /\ ToSet(Tripped) = O
  <2>1. /\ Only(Offers, O) \in Seq(Providers) /\ IsInjective(Only(Offers, O))
        /\ ToSet(Only(Offers, O)) = ToSet(Offers) \intersect O
    BY <1>1, OnlySet, Zenon
  <2>2. QED
    BY <1>1, <1>2, <1>3, <2>1
<1>6. ranking \in Seq(Providers) /\ IsInjective(ranking) /\ ToSet(ranking) = Providers
  <2>1. ToSet(Healthy) \intersect ToSet(Tripped) = {}
    BY <1>3, <1>4, <1>5
  <2>2. ranking \in Seq(Providers) /\ ToSet(ranking) = ToSet(Healthy) \union ToSet(Tripped) /\ IsInjective(ranking)
    BY <1>4, <1>5, <2>1, JoinedSet, Zenon
  <2>3. QED
    BY <1>3, <1>4, <1>5, <2>2
<1> HIDE DEF ranking
<1>7. CASE p \notin ToSet(Healthy)
  BY <1>6, <1>7 DEF Sticking, ranking
<1>8. CASE p \in ToSet(Healthy)
  <2> DEFINE rest == Only(ranking, Providers \ {p})
  <2>1. p \in Providers
    BY <1>3, <1>4, <1>8
  <2>2. rest \in Seq(Providers) /\ IsInjective(rest) /\ ToSet(rest) = ToSet(ranking) \intersect (Providers \ {p})
    BY <1>6, OnlySet, Zenon
  <2>3. <<p>> \in Seq(Providers) /\ ToSet(<<p>>) = {p} /\ IsInjective(<<p>>)
    BY <2>1 DEF ToSet, IsInjective
  <2> HIDE DEF rest
  <2> DEFINE single == <<p>>
  <2> HIDE DEF single
  <2>4. ToSet(single) \intersect ToSet(rest) = {} /\ ToSet(single) \union ToSet(rest) = Providers
    BY <1>6, <2>1, <2>2, <2>3 DEF single
  <2>5. /\ single \o rest \in Seq(Providers) /\ IsInjective(single \o rest)
        /\ ToSet(single \o rest) = ToSet(single) \union ToSet(rest)
    BY <2>2, <2>3, <2>4, JoinedSet, Zenon DEF single
  <2>6. Sticking(ranking, p) = single \o rest
    BY <1>8 DEF Sticking, single, rest
  <2>7. QED
    BY <1>6, <2>4, <2>5, <2>6 DEF ranking
<1>9. QED
  BY <1>7, <1>8

\* A call that gets its routes.
Whole(routes) == routes \in Seq(Providers) /\ routes # <<>> /\ IsInjective(routes) /\ ToSet(routes) = Providers
Routed(c) ==
  /\ Others(c) /\ SameFor(c) /\ Whole(spend'[c].routes)
  /\ spend'[c].at = IF spend[c].kind = "chat" THEN "check" ELSE "call"

\* Routes gives a call its routes.
LEMMA RoutedFields ==
  ASSUME WalletShape, NEW c \in Calls, Routes(c)
  PROVE  IF Offers = <<>> THEN Moved(c, "unavailable") /\ LeaveCall(c)
         ELSE Routed(c) /\ UNCHANGED inflight
<1>1. spend \in [Calls -> Spending]
  BY DEF WalletShape
<1>2. CASE Offers = <<>>
  <2>1. MoveTo(c, "unavailable") /\ "unavailable" \in Places
    BY <1>2 DEF Routes, Places
  <2>2. QED
    BY <1>2, <2>1, MovedFields DEF Routes
<1>3. CASE Offers # <<>>
  <2> DEFINE ranking == Healthy \o Tripped
             routes == IF spend[c].kind = "chat" THEN Sticking(ranking, sticky) ELSE ranking
             place == IF spend[c].kind = "chat" THEN "check" ELSE "call"
             r == [spend[c] EXCEPT !.at = place, !.routes = routes]
  <2>1. Providers # {}
    <3>1. Offers \in Seq(Providers) /\ ToSet(Offers) = Providers
      BY WalletAssumption DEF Providers
    <3>2. 1 \in DOMAIN Offers
      BY <1>3, <3>1
    <3>3. QED
      BY <3>1, <3>2 DEF ToSet
  <2>2. routes \in Seq(Providers) /\ IsInjective(routes) /\ ToSet(routes) = Providers
    <3>1. /\ ranking \in Seq(Providers) /\ IsInjective(ranking) /\ ToSet(ranking) = Providers
          /\ Sticking(ranking, sticky) \in Seq(Providers) /\ IsInjective(Sticking(ranking, sticky))
          /\ ToSet(Sticking(ranking, sticky)) = Providers
      BY OrderIsWhole, Zenon
    <3> HIDE DEF ranking
    <3>2. QED
      BY <3>1
  <2>3. spend' = [spend EXCEPT ![c].at = place, ![c].routes = routes] /\ UNCHANGED inflight
    BY <1>3, Zenon DEF Routes
  <2> HIDE DEF routes
  <2>4. routes # <<>>
    <3>1. ToSet(<<>>) = {}
      BY DEF ToSet
    <3>2. QED
      BY <2>1, <2>2, <3>1
  <2>5. place \in Places
    BY DEF Places
  <2> HIDE DEF place
  <2>6. spend[c] \in Spending /\ r \in Spending
    BY <1>1, <2>2, <2>5 DEF Spending
  <2>7. spend' = [spend EXCEPT ![c] = r]
    BY <1>1, <2>3
  <2>8. /\ r.no = spend[c].no /\ r.kind = spend[c].kind /\ r.by = spend[c].by /\ r.started = spend[c].started
        /\ r.at = place /\ r.routes = routes
    BY <2>6 DEF Spending
  <2> HIDE DEF r
  <2>9. Others(c) /\ spend'[c] = r
    BY <1>1, <2>6, <2>7 DEF Others
  <2>10. Routed(c)
    BY <2>2, <2>4, <2>8, <2>9 DEF Routed, Whole, SameFor, place
  <2>11. QED
    BY <1>3, <2>3, <2>10
<1>4. QED
  BY <1>2, <1>3

\* A call that goes on to its next provider.
Retried(c, place) ==
  Others(c) /\ SameFor(c) /\ spend'[c].at = place /\ spend'[c].routes = Tail(spend[c].routes)

\* TryNext drops the provider that failed.
LEMMA RetriedFields ==
  ASSUME WalletShape, NEW c \in Calls, NEW place \in Places, TryNext(c, place), spend[c].routes # <<>>
  PROVE  IF Len(spend[c].routes) > 1 THEN Retried(c, place) /\ UNCHANGED inflight
         ELSE Moved(c, "unavailable") /\ LeaveCall(c)
<1>1. spend \in [Calls -> Spending]
  BY DEF WalletShape
<1>2. CASE ~ (Len(spend[c].routes) > 1)
  <2>1. MoveTo(c, "unavailable") /\ "unavailable" \in Places /\ LeaveCall(c)
    BY <1>2 DEF TryNext, Places
  <2>2. QED
    BY <1>2, <2>1, MovedFields
<1>3. CASE Len(spend[c].routes) > 1
  <2> DEFINE r == [spend[c] EXCEPT !.routes = Tail(spend[c].routes), !.at = place]
  <2>1. spend[c] \in Spending
    BY <1>1
  <2>2. Tail(spend[c].routes) \in Seq(Providers)
    <3>1. spend[c].routes \in Seq(Providers)
      BY <2>1 DEF Spending
    <3>2. QED
      BY <1>3, <3>1
  <2>3. r \in Spending
    BY <2>1, <2>2 DEF Spending
  <2>4. spend' = [spend EXCEPT ![c].routes = Tail(@), ![c].at = place] /\ UNCHANGED inflight
    BY <1>3 DEF TryNext
  <2>5. spend' = [spend EXCEPT ![c] = r]
    BY <1>1, <2>4
  <2>6. /\ r.no = spend[c].no /\ r.kind = spend[c].kind /\ r.by = spend[c].by /\ r.started = spend[c].started
        /\ r.at = place /\ r.routes = Tail(spend[c].routes)
    BY <2>1 DEF Spending
  <2> HIDE DEF r
  <2>7. Others(c) /\ spend'[c] = r
    BY <1>1, <2>3, <2>5 DEF Others
  <2>8. QED
    BY <1>3, <2>4, <2>6, <2>7 DEF Retried, SameFor
<1>4. QED
  BY <1>2, <1>3

\* A call that is served.
Answered(c) ==
  /\ Others(c) /\ spend'[c].no = spend[c].no /\ spend'[c].kind = spend[c].kind
  /\ spend'[c].at = "settle" /\ spend'[c].started = TRUE /\ spend'[c].by = Head(spend[c].routes)

\* A provider's answer settles the call.
LEMMA AnsweredFields ==
  ASSUME WalletShape, NEW c \in Calls, spend[c].routes # <<>>,
         spend' = [spend EXCEPT ![c].at = "settle", ![c].by = Head(spend[c].routes), ![c].started = TRUE]
  PROVE  Answered(c) /\ Head(spend[c].routes) \in Providers
<1>1. spend \in [Calls -> Spending]
  BY DEF WalletShape
<1> DEFINE r == [spend[c] EXCEPT !.at = "settle", !.by = Head(spend[c].routes), !.started = TRUE]
<1>2. spend[c] \in Spending
  BY <1>1
<1>3. Head(spend[c].routes) \in Providers
  <2>1. spend[c].routes \in Seq(Providers)
    BY <1>2 DEF Spending
  <2>2. QED
    BY <2>1
<1>4. r \in Spending
  BY <1>2, <1>3 DEF Spending, Places
<1>5. spend' = [spend EXCEPT ![c] = r]
  BY <1>1
<1>6. /\ r.no = spend[c].no /\ r.kind = spend[c].kind
      /\ r.at = "settle" /\ r.started = TRUE /\ r.by = Head(spend[c].routes)
  BY <1>2 DEF Spending
<1> HIDE DEF r
<1>7. Others(c) /\ spend'[c] = r
  BY <1>1, <1>4, <1>5 DEF Others
<1>8. QED
  BY <1>3, <1>6, <1>7 DEF Answered

-----------------------------------------------------------------------------
(***************************************************************************)
(* The steps as the invariant sees them.                                   *)
(***************************************************************************)
SameBooks == UNCHANGED <<balance, ledger, keyUsed, served, unbilled>>
SameCalls == UNCHANGED <<callsMade, tried>>

\* It is let in, or finds no provider at all.
Advanced(c) ==
  /\ SameBooks /\ SameCalls
  /\ \/ spend[c].at = "check" /\ spend[c].kind = "api" /\ Moved(c, "route") /\ inflight' = inflight + 1
     \/ spend[c].at = "check" /\ spend[c].kind = "chat" /\ Moved(c, "call") /\ UNCHANGED inflight
     \/ spend[c].at = "route" /\ Offers = <<>> /\ Moved(c, "unavailable") /\ LeaveCall(c)
\* It gets its routes.
GotRoutes(c) == SameBooks /\ SameCalls /\ spend[c].at = "route" /\ Routed(c) /\ UNCHANGED inflight
\* A provider fails it.
Failed(c) ==
  /\ SameBooks /\ UNCHANGED callsMade /\ spend[c].at = "call"
  /\ tried' = [tried EXCEPT ![spend[c].no] = Append(@, Head(spend[c].routes))]
  /\ IF Len(spend[c].routes) > 1
     THEN Retried(c, IF spend[c].kind = "api" THEN "call" ELSE "check") /\ UNCHANGED inflight
     ELSE Moved(c, "unavailable") /\ LeaveCall(c)
\* It leaves unserved, or when all is done.
Left(c) ==
  /\ SameBooks /\ SameCalls /\ Gone(c) /\ spend[c].at \in {"check", "call", "more", "unavailable"}
  /\ IF spend[c].at = "call" THEN LeaveCall(c) ELSE UNCHANGED inflight
\* It is served.
WasServed(c) ==
  /\ UNCHANGED <<balance, ledger, keyUsed, unbilled>> /\ SameCalls /\ LeaveCall(c) /\ spend[c].at = "call"
  /\ served' = served \union {<<spend[c].no, Head(spend[c].routes)>>} /\ Answered(c)
  /\ Head(spend[c].routes) \in Providers
\* It is charged, or a fault takes the charge.
WasCharged(c) ==
  /\ UNCHANGED <<keyUsed, served, unbilled, inflight>> /\ SameCalls /\ spend[c].at = "settle"
  /\ ApplyCharge(c) /\ Moved(c, IF spend[c].kind = "api" THEN "key" ELSE "more")
ChargeLost(c) ==
  /\ UNCHANGED <<balance, ledger, keyUsed, served, inflight>> /\ SameCalls /\ spend[c].at = "settle"
  /\ unbilled' = unbilled \union {spend[c].no}
  /\ IF spend[c].kind = "api" THEN Gone(c) ELSE Moved(c, "more")
\* The key shows it, or a fault takes that.
KeyAdded(c) ==
  /\ UNCHANGED <<balance, ledger, served, unbilled, inflight>> /\ SameCalls /\ spend[c].at = "key" /\ Gone(c)
  /\ keyUsed' = keyUsed + Price[spend[c].by]
KeyLost(c) ==
  /\ UNCHANGED <<balance, ledger, keyUsed, served, inflight>> /\ SameCalls /\ spend[c].at = "key" /\ Gone(c)
  /\ unbilled' = unbilled \union {spend[c].no}
Elsewhere == SameBooks /\ SameCalls /\ UNCHANGED <<inflight, spend>>

OfCall(c) ==
  \/ Begun(c) \/ Advanced(c) \/ GotRoutes(c) \/ Failed(c) \/ Left(c)
  \/ WasServed(c) \/ WasCharged(c) \/ ChargeLost(c) \/ KeyAdded(c) \/ KeyLost(c)

\* A provider fails a call, and a provider answers it.
LEMMA FailedFields ==
  ASSUME WalletInv, NEW c \in Calls,
         CallFails(c) \/ (spend[c].kind = "chat" /\ TryNext(c, "check"))
  PROVE  Failed(c)
<1>1. spend[c].at = "call" /\ spend[c].routes # <<>>
  BY DEF CallFails, TryNext, CallAt, WalletInv, Trying, Untried
<1>2. ASSUME NEW place \in Places, TryNext(c, place), place = IF spend[c].kind = "api" THEN "call" ELSE "check"
      PROVE  Failed(c)
  <2>1. IF Len(spend[c].routes) > 1 THEN Retried(c, place) /\ UNCHANGED inflight
        ELSE Moved(c, "unavailable") /\ LeaveCall(c)
    BY <1>1, <1>2, RetriedFields DEF WalletInv
  <2>2. QED
    BY <1>1, <1>2, <2>1 DEF Failed, TryNext, SameBooks
<1>3. CASE CallFails(c)
  BY <1>2, <1>3 DEF CallFails, Places
<1>4. CASE spend[c].kind = "chat" /\ TryNext(c, "check")
  BY <1>2, <1>4 DEF Places
<1>5. QED
  BY <1>3, <1>4

\* A provider that answers a call takes it to its settlement, served.
LEMMA ServedFields ==
  ASSUME WalletInv, NEW c \in Calls, NEW ends \in BOOLEAN, Serve(c, ends)
  PROVE  WasServed(c)
<1>1. spend[c].at = "call" /\ spend[c].routes # <<>>
  BY DEF Serve, CallAt, WalletInv, Trying, Untried
<1>2. Answered(c) /\ Head(spend[c].routes) \in Providers
  BY <1>1, AnsweredFields DEF WalletInv, Serve
<1>3. QED
  BY <1>1, <1>2 DEF Serve, WasServed, SameCalls

\* Every step is the step of one call, or leaves the calls alone.
LEMMA WalletSteps ==
  ASSUME WalletInv, [WalletNext]_walletVars
  PROVE  (\E c \in Calls : OfCall(c)) \/ Elsewhere
<1> WalletShape
  BY DEF WalletInv
<1>1. ASSUME NEW c \in Calls, Authenticate(c) \/ ChatTurn(c) PROVE OfCall(c)
  BY <1>1, BegunFields DEF OfCall
<1>2. ASSUME NEW c \in Calls, Admit(c) PROVE OfCall(c)
  <2>1. CASE spend' = [spend EXCEPT ![c] = NoCall] /\ UNCHANGED inflight
    <3>1. Gone(c)
      BY <2>1, GoneFields
    <3>2. Left(c)
      BY <1>2, <2>1, <3>1 DEF Left, Admit, CallAt, SameBooks, SameCalls
    <3>3. QED
      BY <3>2 DEF OfCall
  <2>2. CASE MoveTo(c, "route") /\ inflight' = inflight + 1
    <3>1. Moved(c, "route")
      BY <2>2, MovedFields DEF Places
    <3>2. Advanced(c)
      BY <1>2, <2>2, <3>1 DEF Advanced, Admit, CallAt, SameBooks, SameCalls
    <3>3. QED
      BY <3>2 DEF OfCall
  <2>3. QED
    BY <1>2, <2>1, <2>2 DEF Admit
<1>3. ASSUME NEW c \in Calls, Routes(c) PROVE OfCall(c)
  <2>1. IF Offers = <<>> THEN Moved(c, "unavailable") /\ LeaveCall(c)
        ELSE Routed(c) /\ UNCHANGED inflight
    BY <1>3, RoutedFields
  <2>2. Advanced(c) \/ GotRoutes(c)
    BY <1>3, <2>1 DEF Advanced, GotRoutes, Routes, CallAt, SameBooks, SameCalls
  <2>3. QED
    BY <2>2 DEF OfCall
<1>4. ASSUME NEW c \in Calls, CheckChat(c) PROVE OfCall(c)
  <2>1. CASE spend' = [spend EXCEPT ![c] = NoCall]
    <3>1. Gone(c)
      BY <2>1, GoneFields
    <3>2. Left(c)
      BY <1>4, <3>1 DEF Left, CheckChat, CallAt, SameBooks, SameCalls
    <3>3. QED
      BY <3>2 DEF OfCall
  <2>2. CASE MoveTo(c, "call")
    <3>1. Moved(c, "call")
      BY <2>2, MovedFields DEF Places
    <3>2. Advanced(c)
      BY <1>4, <3>1 DEF Advanced, CheckChat, CallAt, SameBooks, SameCalls
    <3>3. QED
      BY <3>2 DEF OfCall
  <2>3. QED
    BY <1>4, <2>1, <2>2 DEF CheckChat
<1>5. ASSUME NEW c \in Calls, CallFails(c) PROVE OfCall(c)
  BY <1>5, FailedFields DEF OfCall
<1>6. ASSUME NEW c \in Calls, CallRefused(c) PROVE OfCall(c)
  <2>1. Gone(c)
    BY <1>6, GoneFields DEF CallRefused
  <2>2. Left(c)
    BY <1>6, <2>1 DEF Left, CallRefused, CallAt, SameBooks, SameCalls
  <2>3. QED
    BY <2>2 DEF OfCall
<1>7. ASSUME NEW c \in Calls, ChatAttempt(c) PROVE OfCall(c)
  <2>1. (\E ends \in BOOLEAN : Serve(c, ends)) \/ (spend[c].kind = "chat" /\ TryNext(c, "check"))
    BY <1>7 DEF ChatAttempt
  <2>2. QED
    BY <2>1, FailedFields, ServedFields DEF OfCall
<1>8. ASSUME NEW c \in Calls, NEW ends \in BOOLEAN, CallServed(c, ends) PROVE OfCall(c)
  BY <1>8, ServedFields DEF OfCall, CallServed
<1>9. ASSUME NEW c \in Calls, Settle(c) PROVE OfCall(c)
  <2>1. CASE ApplyCharge(c) /\ UNCHANGED unbilled /\ MoveTo(c, IF spend[c].kind = "api" THEN "key" ELSE "more")
    <3>1. Moved(c, IF spend[c].kind = "api" THEN "key" ELSE "more")
      <4>1. CASE spend[c].kind = "api"
        BY <2>1, <4>1, MovedFields DEF Places
      <4>2. CASE spend[c].kind # "api"
        BY <2>1, <4>2, MovedFields DEF Places
      <4>3. QED
        BY <4>1, <4>2
    <3>2. WasCharged(c)
      BY <1>9, <2>1, <3>1 DEF WasCharged, Settle, CallAt, SameCalls
    <3>3. QED
      BY <3>2 DEF OfCall
  <2>2. CASE /\ unbilled' = unbilled \union {spend[c].no} /\ UNCHANGED <<balance, ledger>>
             /\ IF spend[c].kind = "api" THEN spend' = [spend EXCEPT ![c] = NoCall] ELSE MoveTo(c, "more")
    <3>1. IF spend[c].kind = "api" THEN Gone(c) ELSE Moved(c, "more")
      BY <2>2, GoneFields, MovedFields DEF Places
    <3>2. ChargeLost(c)
      BY <1>9, <2>2, <3>1 DEF ChargeLost, Settle, CallAt, SameCalls
    <3>3. QED
      BY <3>2 DEF OfCall
  <2>3. QED
    BY <1>9, <2>1, <2>2 DEF Settle
<1>10. ASSUME NEW c \in Calls, AddKeyUsage(c) PROVE OfCall(c)
  <2>1. Gone(c)
    BY <1>10, GoneFields DEF AddKeyUsage
  <2>2. KeyAdded(c) \/ KeyLost(c)
    BY <1>10, <2>1 DEF KeyAdded, KeyLost, AddKeyUsage, CallAt, SameCalls
  <2>3. QED
    BY <2>2 DEF OfCall
<1>11. ASSUME NEW c \in Calls, EndCall(c) PROVE OfCall(c)
  <2>1. Gone(c)
    BY <1>11, GoneFields DEF EndCall
  <2>2. Left(c)
    BY <1>11, <2>1 DEF Left, EndCall, SameBooks, SameCalls
  <2>3. QED
    BY <2>2 DEF OfCall
<1>12. ASSUME (\E p \in Providers : TripEnds(p)) \/ SwitchKey \/ UNCHANGED walletVars PROVE Elsewhere
  BY <1>12 DEF TripEnds, SwitchKey, walletVars, Elsewhere, SameBooks, SameCalls
<1>13. QED
  BY <1>1, <1>2, <1>3, <1>4, <1>5, <1>6, <1>7, <1>8, <1>9, <1>10, <1>11, <1>12 DEF WalletNext

-----------------------------------------------------------------------------
(***************************************************************************)
(* Every step keeps the invariant, part by part.                           *)
(***************************************************************************)

\* What the invariant says of the call that takes a step.
LEMMA CallFacts ==
  ASSUME WalletInv, NEW c \in Calls
  PROVE  /\ spend[c] \in Spending /\ spend[c].no \in Nat /\ callsMade \in Nat /\ inflight \in Int
         /\ spend[c].at # "idle" => spend[c].no \in 1 .. callsMade /\ tried[spend[c].no] \in Seq(Providers)
         /\ spend[c].started => spend[c].by \in Providers /\ Price[spend[c].by] \in Nat \ {0}
         /\ spend[c].started <=> spend[c].at \in {"settle", "key", "more"}
         /\ spend[c].at = "idle" => spend[c] = NoCall
<1>1. spend[c] \in Spending /\ callsMade \in Nat /\ inflight \in Int /\ Len(tried) = callsMade /\ tried \in Seq(Seq(Providers))
  BY DEF WalletInv, WalletShape
<1>2. spend[c].no \in Nat
  BY <1>1 DEF Spending
<1>3. spend[c].at # "idle" => spend[c].no \in 1 .. callsMade
  BY DEF WalletInv, Standing
<1>4. \A n \in 1 .. callsMade : tried[n] \in Seq(Providers)
  BY <1>1
<1>5. spend[c].started => spend[c].by \in Providers
  BY DEF WalletInv, Numbers
<1>6. \A p \in Providers : Price[p] \in Nat \ {0}
  BY WalletAssumption DEF Providers
<1>7. spend[c].started <=> spend[c].at \in {"settle", "key", "more"}
  BY DEF WalletInv, Standing
<1>8. spend[c].at = "idle" => spend[c] = NoCall
  BY DEF WalletInv, Standing
<1>9. QED
  BY <1>1, <1>2, <1>3, <1>4, <1>5, <1>6, <1>7, <1>8

\* The tripped and the healthy stay what they are, whatever happens to them.
LEMMA HealthShape ==
  ASSUME WalletInv, [WalletNext]_walletVars
  PROVE  /\ health' \in [Providers -> [fails : Nat, open : BOOLEAN]]
         /\ keyOn' \in BOOLEAN /\ walletFaults' \in Nat
<1> DEFINE Shape == /\ health' \in [Providers -> [fails : Nat, open : BOOLEAN]]
                    /\ keyOn' \in BOOLEAN /\ walletFaults' \in Nat
<1>1. health \in [Providers -> [fails : Nat, open : BOOLEAN]] /\ keyOn \in BOOLEAN /\ walletFaults \in Nat
  BY DEF WalletInv, WalletShape
<1>2. WalletFault => walletFaults' \in Nat
  BY <1>1 DEF WalletFault
<1>3. ASSUME NEW p, Success(p) PROVE health' \in [Providers -> [fails : Nat, open : BOOLEAN]]
  BY <1>1, <1>3 DEF Success
<1>4. ASSUME NEW p, Failure(p) PROVE health' \in [Providers -> [fails : Nat, open : BOOLEAN]]
  <2>1. \A r \in [fails : Nat, open : BOOLEAN] :
           [fails |-> r.fails + 1, open |-> r.open \/ r.fails + 1 >= FailsToTrip] \in [fails : Nat, open : BOOLEAN]
    OBVIOUS
  <2>2. health' = [health EXCEPT ![p] = [fails |-> health[p].fails + 1,
                                         open |-> health[p].open \/ health[p].fails + 1 >= FailsToTrip]]
    BY <1>4 DEF Failure
  <2>3. QED
    BY <1>1, <2>1, <2>2
<1>5. ASSUME NEW c \in Calls, NEW place, TryNext(c, place) PROVE Shape
  <2>1. Failure(Head(spend[c].routes)) /\ WalletFault /\ UNCHANGED keyOn
    BY <1>5 DEF TryNext
  <2>2. QED
    BY <1>1, <1>2, <1>4, <2>1
<1>6. ASSUME NEW c \in Calls, NEW ends \in BOOLEAN, Serve(c, ends) PROVE keyOn' \in BOOLEAN /\ walletFaults' \in Nat
  BY <1>1, <1>2, <1>6 DEF Serve
<1>7. ASSUME NEW c \in Calls, NEW ends \in BOOLEAN, CallServed(c, ends) PROVE Shape
  BY <1>1, <1>3, <1>6, <1>7 DEF CallServed
<1>8. ASSUME NEW c \in Calls, ChatAttempt(c) PROVE Shape
  BY <1>1, <1>3, <1>5, <1>6, <1>8 DEF ChatAttempt
<1>9. ASSUME NEW p \in Providers, TripEnds(p) PROVE Shape
  <2>1. \A r \in [fails : Nat, open : BOOLEAN] : [r EXCEPT !.open = FALSE] \in [fails : Nat, open : BOOLEAN]
    OBVIOUS
  <2>2. health' = [health EXCEPT ![p] = [health[p] EXCEPT !.open = FALSE]] /\ UNCHANGED <<keyOn, walletFaults>>
    BY <1>1, <1>9 DEF TripEnds
  <2>3. QED
    BY <1>1, <2>1, <2>2
<1>10. ASSUME NEW c \in Calls,
              \/ Authenticate(c) \/ Admit(c) \/ ChatTurn(c) \/ Routes(c) \/ CheckChat(c)
              \/ CallRefused(c) \/ Settle(c) \/ AddKeyUsage(c) \/ EndCall(c)
       PROVE  Shape
  BY <1>1, <1>2, <1>10 DEF Authenticate, Admit, ChatTurn, Routes, CheckChat, CallRefused, Settle, AddKeyUsage, EndCall
<1>11. ASSUME NEW c \in Calls, CallFails(c) PROVE Shape
  BY <1>5, <1>11 DEF CallFails
<1>12. SwitchKey \/ UNCHANGED walletVars => Shape
  BY <1>1, <1>2 DEF SwitchKey, walletVars
<1>13. QED
  BY <1>7, <1>8, <1>9, <1>10, <1>11, <1>12 DEF WalletNext

\* Every step keeps the shape of the state.
LEMMA ShapeKept ==
  ASSUME WalletInv, [WalletNext]_walletVars
  PROVE  WalletShape'
<1> DEFINE Mine ==
      /\ balance' \in Int /\ ledger' \in Seq(Entry) /\ keyUsed' \in Nat
      /\ inflight' \in Int /\ spend' \in [Calls -> Spending] /\ callsMade' \in Nat
      /\ tried' \in Seq(Seq(Providers)) /\ Len(tried') = callsMade'
      /\ served' \subseteq (1 .. callsMade') \X Providers /\ unbilled' \subseteq Nat
<1>1. /\ balance \in Int /\ ledger \in Seq(Entry) /\ keyUsed \in Nat
      /\ inflight \in Int /\ spend \in [Calls -> Spending] /\ callsMade \in Nat
      /\ tried \in Seq(Seq(Providers)) /\ Len(tried) = callsMade
      /\ served \subseteq (1 .. callsMade) \X Providers /\ unbilled \subseteq Nat
  BY DEF WalletInv, WalletShape
<1>2. ASSUME NEW c \in Calls PROVE LeaveCall(c) => inflight' \in Int
  BY <1>1 DEF LeaveCall
<1>3. ASSUME NEW c \in Calls, OfCall(c) PROVE spend' \in [Calls -> Spending]
  BY <1>3 DEF OfCall, Begun, Advanced, GotRoutes, Failed, Left, WasServed, WasCharged, ChargeLost, KeyAdded, KeyLost,
              Moved, Gone, Routed, Retried, Answered, Others
<1>4. ASSUME NEW c \in Calls, Begun(c) PROVE Mine
  <2>1. Append(tried, <<>>) \in Seq(Seq(Providers)) /\ Len(Append(tried, <<>>)) = callsMade + 1
    BY <1>1
  <2>2. served \subseteq (1 .. callsMade + 1) \X Providers
    BY <1>1
  <2>3. QED
    BY <1>1, <1>4, <2>1, <2>2 DEF Begun, Others
<1>5. ASSUME NEW c \in Calls, Advanced(c) \/ GotRoutes(c) \/ Left(c) PROVE Mine
  <2>1. inflight' \in Int
    BY <1>1, <1>2, <1>5 DEF Advanced, GotRoutes, Left
  <2>2. SameBooks /\ SameCalls
    BY <1>5 DEF Advanced, GotRoutes, Left
  <2>3. spend' \in [Calls -> Spending]
    BY <1>3, <1>5 DEF OfCall
  <2>4. QED
    BY <1>1, <2>1, <2>2, <2>3 DEF SameBooks, SameCalls
<1>6. ASSUME NEW c \in Calls, Failed(c) PROVE Mine
  <2>1. spend[c].no \in 1 .. callsMade /\ tried[spend[c].no] \in Seq(Providers) /\ spend[c].at = "call"
    BY <1>6, CallFacts DEF Failed
  <2>2. Head(spend[c].routes) \in Providers
    <3>1. spend[c].routes # <<>> /\ spend[c].routes \in Seq(Providers)
      BY <1>1, <2>1 DEF WalletInv, Trying, Untried, Spending
    <3>2. QED
      BY <3>1
  <2>3. tried' = [tried EXCEPT ![spend[c].no] = Append(tried[spend[c].no], Head(spend[c].routes))]
    BY <1>6 DEF Failed
  <2>4. Append(tried[spend[c].no], Head(spend[c].routes)) \in Seq(Providers)
    BY <2>1, <2>2
  <2>5. tried' \in Seq(Seq(Providers)) /\ Len(tried') = callsMade
    BY <1>1, <2>1, <2>3, <2>4
  <2>6. inflight' \in Int
    BY <1>1, <1>2, <1>6 DEF Failed
  <2>7. QED
    BY <1>1, <1>3, <1>6, <2>5, <2>6 DEF Failed, SameBooks, OfCall
<1>7. ASSUME NEW c \in Calls, WasServed(c) PROVE Mine
  <2>1. spend[c].no \in 1 .. callsMade
    BY <1>7, CallFacts DEF WasServed
  <2>2. inflight' \in Int
    BY <1>2, <1>7 DEF WasServed
  <2>3. served' \subseteq (1 .. callsMade) \X Providers
    BY <1>1, <1>7, <2>1 DEF WasServed
  <2>4. QED
    BY <1>1, <1>3, <1>7, <2>2, <2>3 DEF WasServed, SameCalls, OfCall
<1>8. ASSUME NEW c \in Calls, WasCharged(c) PROVE Mine
  <2>1. spend[c].no \in 1 .. callsMade /\ spend[c].by \in Providers /\ Price[spend[c].by] \in Nat
    BY <1>8, CallFacts DEF WasCharged
  <2>2. balance' = balance - Price[spend[c].by]
    BY <1>8 DEF WasCharged, ApplyCharge
  <2>3. ledger' = Append(ledger, [call |-> spend[c].no, provider |-> spend[c].by])
    BY <1>8 DEF WasCharged, ApplyCharge
  <2>4. [call |-> spend[c].no, provider |-> spend[c].by] \in Entry
    BY <1>1, <2>1 DEF Entry
  <2>5. ledger' \in Seq(Entry)
    BY <1>1, <2>3, <2>4
  <2>6. balance' \in Int
    BY <1>1, <2>1, <2>2
  <2>7. QED
    BY <1>1, <1>3, <1>8, <2>5, <2>6 DEF WasCharged, SameCalls, OfCall
<1>9. ASSUME NEW c \in Calls, ChargeLost(c) \/ KeyLost(c) PROVE Mine
  <2>1. spend[c].no \in Nat
    BY CallFacts
  <2>2. unbilled' \subseteq Nat
    BY <1>1, <1>9, <2>1 DEF ChargeLost, KeyLost
  <2>3. QED
    BY <1>1, <1>3, <1>9, <2>2 DEF ChargeLost, KeyLost, SameCalls, OfCall
<1>10. ASSUME NEW c \in Calls, KeyAdded(c) PROVE Mine
  <2>1. Price[spend[c].by] \in Nat
    BY <1>10, CallFacts DEF KeyAdded
  <2>2. keyUsed' \in Nat
    BY <1>1, <1>10, <2>1 DEF KeyAdded
  <2>3. QED
    BY <1>1, <1>3, <1>10, <2>2 DEF KeyAdded, SameCalls, OfCall
<1>11. Elsewhere => Mine
  BY <1>1 DEF Elsewhere, SameBooks, SameCalls
<1>12. Mine
  BY <1>4, <1>5, <1>6, <1>7, <1>8, <1>9, <1>10, <1>11, WalletSteps DEF OfCall
<1>13. QED
  BY <1>12, HealthShape DEF WalletShape

\* A call that did not take the step stays as it was.
LEMMA OthersStay ==
  ASSUME NEW c \in Calls, OfCall(c), NEW d \in Calls, d # c
  PROVE  spend'[d] = spend[d]
BY DEF OfCall, Begun, Advanced, GotRoutes, Failed, Left, WasServed, WasCharged, ChargeLost, KeyAdded, KeyLost,
       Moved, Gone, Routed, Retried, Answered, Others

\* Numbers are only ever given out.
LEMMA MadeGrows ==
  ASSUME WalletInv, NEW c \in Calls, OfCall(c)
  PROVE  callsMade' \in {callsMade, callsMade + 1} /\ served \subseteq served'
BY DEF OfCall, Begun, Advanced, GotRoutes, Failed, Left, WasServed, WasCharged, ChargeLost, KeyAdded, KeyLost,
       SameBooks, SameCalls

\* Every step keeps what holds of a call where it stands.
LEMMA StandingKept ==
  ASSUME WalletInv, [WalletNext]_walletVars
  PROVE  \A d \in Calls : Standing(d)'
<1> SUFFICES ASSUME NEW d \in Calls PROVE Standing(d)'
  OBVIOUS
<1>1. Standing(d) /\ callsMade \in Nat
  BY DEF WalletInv, WalletShape
<1>2. CASE Elsewhere
  BY <1>1, <1>2 DEF Elsewhere, SameCalls, Standing
<1>3. ASSUME NEW c \in Calls, OfCall(c), d # c PROVE Standing(d)'
  <2>1. spend'[d] = spend[d] /\ callsMade' \in {callsMade, callsMade + 1}
    BY <1>3, OthersStay, MadeGrows
  <2>2. QED
    BY <1>1, <2>1 DEF Standing
<1>4. ASSUME OfCall(d) PROVE Standing(d)'
  <2>1. CASE Begun(d)
    BY <1>1, <2>1, NoCallShape DEF Standing, Begun
  <2>2. CASE Advanced(d)
    BY <1>1, <2>2 DEF Standing, Advanced, Moved, SameFor, SameCalls
  <2>3. CASE GotRoutes(d)
    BY <1>1, <2>3 DEF Standing, GotRoutes, Routed, SameFor, SameCalls
  <2>4. CASE Failed(d)
    BY <1>1, <2>4 DEF Standing, Failed, Retried, Moved, SameFor
  <2>5. CASE Left(d) \/ KeyAdded(d) \/ KeyLost(d)
    BY <2>5, NoCallShape DEF Standing, Left, KeyAdded, KeyLost, Gone
  <2>6. CASE WasServed(d)
    BY <1>1, <2>6 DEF Standing, WasServed, Answered, SameCalls
  <2>7. CASE WasCharged(d)
    BY <1>1, <2>7 DEF Standing, WasCharged, Moved, SameFor, SameCalls
  <2>8. CASE ChargeLost(d)
    BY <1>1, <2>8, NoCallShape DEF Standing, ChargeLost, Moved, Gone, SameFor, SameCalls
  <2>9. QED
    BY <1>4, <2>1, <2>2, <2>3, <2>4, <2>5, <2>6, <2>7, <2>8 DEF OfCall
<1>5. QED
  BY <1>2, <1>3, <1>4, WalletSteps

\* A call keeps its number until it goes, and is given a new one.
LEMMA NumberOf ==
  ASSUME WalletInv, NEW c \in Calls, OfCall(c)
  PROVE  \/ Begun(c)
         \/ spend[c].at # "idle" /\ spend'[c] = NoCall
         \/ spend[c].at # "idle" /\ spend'[c].at # "idle" /\ spend'[c].no = spend[c].no
BY DEF OfCall, Advanced, GotRoutes, Failed, Left, WasServed, WasCharged, ChargeLost, KeyAdded, KeyLost,
       Moved, Gone, Routed, Retried, Answered, SameFor

\* Every step keeps the numbers of the calls apart.
LEMMA NumbersKept ==
  ASSUME WalletInv, [WalletNext]_walletVars
  PROVE  Numbers'
<1>1. Numbers /\ callsMade \in Nat /\ served \subseteq (1 .. callsMade) \X Providers
  BY DEF WalletInv, WalletShape
<1>2. \A d \in Calls : spend[d].no <= callsMade
  <2> SUFFICES ASSUME NEW d \in Calls PROVE spend[d].no <= callsMade
    OBVIOUS
  <2>1. spend[d].at = "idle" => spend[d].no = 0
    BY CallFacts, NoCallShape
  <2>2. QED
    BY <1>1, <2>1, CallFacts
<1>3. CASE Elsewhere
  BY <1>1, <1>3 DEF Elsewhere, SameBooks, Numbers, Unserved
<1>4. ASSUME NEW x \in Calls, OfCall(x) PROVE Numbers'
  <2>1. \A d \in Calls : d # x => spend'[d] = spend[d]
    BY <1>4, OthersStay
  <2>2. served \subseteq served'
    BY <1>4, MadeGrows
  <2>3. ASSUME NEW c \in Calls, NEW d \in Calls, spend'[c].at # "idle", spend'[c].no = spend'[d].no PROVE c = d
    <3>1. CASE Begun(x)
      <4>1. spend'[x].no = callsMade + 1
        BY <3>1 DEF Begun
      <4>2. \A e \in Calls : e # x => spend'[e].no # callsMade + 1
        BY <1>1, <1>2, <2>1, CallFacts
      <4>3. c = x <=> d = x
        BY <2>3, <4>1, <4>2
      <4>4. QED
        BY <1>1, <2>1, <2>3, <4>3 DEF Numbers
    <3>2. CASE spend[x].at # "idle" /\ spend'[x] = NoCall
      <4>1. c # x /\ spend[c].at # "idle" /\ spend'[c].no = spend[c].no
        BY <2>1, <2>3, <3>2, NoCallShape
      <4>2. spend[c].no # 0
        BY <4>1, CallFacts
      <4>3. d # x
        BY <2>3, <3>2, <4>1, <4>2, NoCallShape
      <4>4. QED
        BY <1>1, <2>1, <2>3, <4>1, <4>3 DEF Numbers
    <3>3. CASE spend[x].at # "idle" /\ spend'[x].at # "idle" /\ spend'[x].no = spend[x].no
      <4>1. spend[c].at # "idle" /\ spend[c].no = spend[d].no
        BY <2>1, <2>3, <3>3
      <4>2. QED
        BY <1>1, <4>1 DEF Numbers
    <3>4. QED
      BY <1>4, <3>1, <3>2, <3>3, NumberOf
  <2>4. ASSUME NEW c \in Calls, spend'[c].at # "idle", ~spend'[c].started, NEW s \in served'
        PROVE  s[1] # spend'[c].no
    <3>1. CASE Begun(x)
      <4>1. s \in served /\ s[1] \in 1 .. callsMade
        BY <1>1, <2>4, <3>1 DEF Begun
      <4>2. CASE c = x
        BY <1>1, <3>1, <4>1, <4>2 DEF Begun
      <4>3. CASE c # x
        BY <1>1, <2>1, <2>4, <4>1, <4>3 DEF Numbers, Unserved
      <4>4. QED
        BY <4>2, <4>3
    <3>2. CASE WasServed(x)
      <4>1. c # x
        BY <2>4, <3>2 DEF WasServed, Answered
      <4>2. spend[c].at # "idle" /\ ~spend[c].started /\ spend'[c].no = spend[c].no
        BY <2>1, <2>4, <4>1
      <4>3. spend[c].no # spend[x].no
        BY <1>1, <4>1, <4>2 DEF Numbers
      <4>4. s \in served \/ s = <<spend[x].no, Head(spend[x].routes)>>
        BY <2>4, <3>2 DEF WasServed
      <4>5. s \in served => s[1] # spend[c].no
        BY <1>1, <4>2 DEF Numbers, Unserved
      <4>6. QED
        BY <4>2, <4>3, <4>4, <4>5
    <3>3. CASE ~Begun(x) /\ ~WasServed(x)
      <4>1. served' = served
        BY <1>4, <3>3 DEF OfCall, Advanced, GotRoutes, Failed, Left, WasCharged, ChargeLost, KeyAdded, KeyLost, SameBooks
      <4>2. spend[c].at # "idle" /\ ~spend[c].started /\ spend'[c].no = spend[c].no
        <5>1. CASE c # x
          BY <2>1, <2>4, <5>1
        <5>2. CASE c = x
          <6>1. spend[x].at # "idle" /\ spend'[x].no = spend[x].no
            BY <1>4, <2>4, <3>3, <5>2, NumberOf, NoCallShape
          <6>2. spend'[x].started = spend[x].started
            BY <1>4, <2>4, <3>3, <5>2, NoCallShape
            DEF OfCall, Advanced, GotRoutes, Failed, Left, WasCharged, ChargeLost, KeyAdded, KeyLost,
                Moved, Gone, Routed, Retried, SameFor
          <6>3. QED
            BY <2>4, <5>2, <6>1, <6>2
        <5>3. QED
          BY <5>1, <5>2
      <4>3. QED
        BY <1>1, <2>4, <4>1, <4>2 DEF Numbers, Unserved
    <3>4. QED
      BY <3>1, <3>2, <3>3
  <2>5. ASSUME NEW c \in Calls, spend'[c].started
        PROVE  spend'[c].by \in Providers /\ <<spend'[c].no, spend'[c].by>> \in served'
    <3>1. CASE c # x
      BY <1>1, <2>1, <2>2, <2>5, <3>1 DEF Numbers
    <3>2. CASE c = x /\ WasServed(x)
      BY <3>2 DEF WasServed, Answered
    <3>3. CASE c = x /\ ~WasServed(x)
      <4>1. spend'[x].started = spend[x].started /\ spend'[x].no = spend[x].no /\ spend'[x].by = spend[x].by
        BY <1>4, <2>5, <3>3, CallFacts, NoCallShape
        DEF OfCall, Begun, Advanced, GotRoutes, Failed, Left, WasCharged, ChargeLost, KeyAdded, KeyLost,
            Moved, Gone, Routed, Retried, SameFor
      <4>2. QED
        BY <1>1, <2>2, <2>5, <3>3, <4>1 DEF Numbers
    <3>4. QED
      BY <3>1, <3>2, <3>3
  <2>6. QED
    BY <2>3, <2>4, <2>5 DEF Numbers, Unserved
<1>5. QED
  BY <1>3, <1>4, WalletSteps

\* Whom a call was sent to changes only when a provider fails it.
LEMMA TriedStays ==
  ASSUME WalletInv, NEW c \in Calls, OfCall(c)
  PROVE  /\ DOMAIN tried = 1 .. callsMade /\ DOMAIN tried' = 1 .. callsMade'
         /\ \A n \in 1 .. callsMade : tried[n] \in Seq(Providers)
         /\ \A n \in 1 .. callsMade : ~ (Failed(c) /\ n = spend[c].no) => tried'[n] = tried[n]
         /\ Begun(c) => tried'[callsMade + 1] = <<>>
         /\ ~Begun(c) => callsMade' = callsMade
<1>1. tried \in Seq(Seq(Providers)) /\ Len(tried) = callsMade /\ callsMade \in Nat
  BY DEF WalletInv, WalletShape
<1>2. DOMAIN tried = 1 .. callsMade /\ \A n \in 1 .. callsMade : tried[n] \in Seq(Providers)
  BY <1>1
<1>3. CASE Begun(c)
  <2>1. tried' = Append(tried, <<>>) /\ callsMade' = callsMade + 1
    BY <1>3 DEF Begun
  <2>2. DOMAIN tried' = 1 .. callsMade + 1 /\ tried'[callsMade + 1] = <<>>
    BY <1>1, <2>1
  <2>3. \A n \in 1 .. callsMade : tried'[n] = tried[n]
    BY <1>1, <2>1
  <2>4. QED
    BY <1>2, <1>3, <2>1, <2>2, <2>3
<1>4. CASE Failed(c)
  <2>1. tried' = [tried EXCEPT ![spend[c].no] = Append(@, Head(spend[c].routes))] /\ callsMade' = callsMade
    BY <1>4 DEF Failed
  <2>2. spend[c].at = "call"
    BY <1>4 DEF Failed
  <2>3. ~Begun(c)
    BY <2>2 DEF Begun
  <2>4. QED
    BY <1>2, <1>4, <2>1, <2>3
<1>5. CASE ~Begun(c) /\ ~Failed(c)
  <2>1. SameCalls
    BY <1>5 DEF OfCall, Advanced, GotRoutes, Left, WasServed, WasCharged, ChargeLost, KeyAdded, KeyLost
  <2>2. QED
    BY <1>2, <1>5, <2>1 DEF SameCalls
<1>6. QED
  BY <1>3, <1>4, <1>5

\* A provider that fails is one more that was tried and one less to try.
LEMMA FailedProvider ==
  ASSUME WalletInv, NEW c \in Calls, Failed(c)
  PROVE  /\ spend[c].no \in 1 .. callsMade /\ ~Begun(c)
         /\ tried'[spend[c].no] \in Seq(Providers) /\ IsInjective(tried'[spend[c].no])
         /\ IF Len(spend[c].routes) > 1
            THEN /\ Tail(spend[c].routes) # <<>> /\ IsInjective(Tail(spend[c].routes))
                 /\ ToSet(Tail(spend[c].routes)) \union ToSet(tried'[spend[c].no]) = Providers
                 /\ ToSet(Tail(spend[c].routes)) \intersect ToSet(tried'[spend[c].no]) = {}
            ELSE ToSet(tried'[spend[c].no]) = Providers
<1> DEFINE no == spend[c].no
           rs == spend[c].routes
           q == tried[no]
           p == Head(rs)
<1>1. no \in 1 .. callsMade /\ q \in Seq(Providers) /\ spend[c].at = "call"
  BY CallFacts DEF Failed
<1>2. rs \in Seq(Providers) /\ rs # <<>> /\ IsInjective(rs)
  BY <1>1 DEF WalletInv, Trying, Untried, WalletShape, Spending
<1>3. ToSet(rs) \union ToSet(q) = Providers /\ ToSet(rs) \intersect ToSet(q) = {}
  BY <1>1 DEF WalletInv, Trying, Untried
<1>4. IsInjective(q)
  <2>1. no \in DOMAIN tried
    BY <1>1 DEF WalletInv, WalletShape
  <2>2. QED
    BY <2>1 DEF WalletInv, Trying, EveryProviderIsTried
<1>5. tried'[no] = Append(q, p)
  <2>1. tried' = [tried EXCEPT ![no] = Append(q, p)] /\ no \in DOMAIN tried
    BY <1>1 DEF Failed, WalletInv, WalletShape
  <2>2. QED
    BY <2>1
<1> HIDE DEF no, rs, q, p
<1>6. /\ Tail(rs) \in Seq(Providers) /\ p \in Providers /\ IsInjective(Tail(rs))
      /\ ToSet(rs) = ToSet(Tail(rs)) \union {p} /\ p \notin ToSet(Tail(rs))
      /\ (Len(rs) > 1 <=> Tail(rs) # <<>>)
  BY <1>2, TailSet DEF p
<1>7. p \notin ToSet(q)
  BY <1>3, <1>6
<1>8. Append(q, p) \in Seq(Providers) /\ IsInjective(Append(q, p)) /\ ToSet(Append(q, p)) = ToSet(q) \union {p}
  BY <1>1, <1>4, <1>6, <1>7, AppendedSet
<1>9. CASE Len(rs) > 1
  <2>1. ToSet(Tail(rs)) \union ToSet(tried'[no]) = Providers /\ ToSet(Tail(rs)) \intersect ToSet(tried'[no]) = {}
    BY <1>3, <1>5, <1>6, <1>8
  <2>2. QED
    BY <1>1, <1>5, <1>6, <1>8, <1>9, <2>1 DEF no, rs, Begun
<1>10. CASE ~ (Len(rs) > 1)
  <2>1. ToSet(Tail(rs)) = {}
    BY <1>6, <1>10 DEF ToSet
  <2>2. ToSet(tried'[no]) = Providers
    BY <1>3, <1>5, <1>6, <1>8, <2>1
  <2>3. QED
    BY <1>1, <1>5, <1>8, <1>10, <2>2 DEF no, rs, Begun
<1>11. QED
  BY <1>9, <1>10

\* The part of Trying that speaks of one call.
TryingFor(c) ==
  /\ Untried(c) =>
       /\ spend[c].routes # <<>> /\ IsInjective(spend[c].routes)
       /\ ToSet(spend[c].routes) \union ToSet(tried[spend[c].no]) = Providers
       /\ ToSet(spend[c].routes) \intersect ToSet(tried[spend[c].no]) = {}
  /\ Unserved(c) /\ ~Untried(c) /\ spend[c].at # "unavailable" => tried[spend[c].no] = <<>>
  /\ CallAt(c, "unavailable") => ToSet(tried[spend[c].no]) = Providers

\* A call's step keeps what was tried and what is left to try, for each call.
LEMMA TryingForKept ==
  ASSUME WalletInv, NEW x \in Calls, OfCall(x), NEW d \in Calls
  PROVE  TryingFor(d)'
<1>1. TryingFor(d) /\ TryingFor(x)
  BY DEF WalletInv, Trying, EveryProviderIsTried, TryingFor
<1>2. CASE d # x
  <2>1. spend'[d] = spend[d]
    BY <1>2, OthersStay
  <2>2. CASE spend[d].at = "idle"
    <3>1. spend'[d].at = "idle"
      BY <2>1, <2>2
    <3>2. QED
      BY <3>1 DEF TryingFor, Untried, Unserved, CallAt
  <2>3. CASE spend[d].at # "idle"
    <3>1. spend[d].no \in 1 .. callsMade /\ (spend[x].at # "idle" => spend[d].no # spend[x].no)
      BY <1>2, <2>3, CallFacts DEF WalletInv, Numbers
    <3>2. Failed(x) => spend[x].at # "idle"
      BY DEF Failed
    <3>3. tried'[spend[d].no] = tried[spend[d].no]
      BY <3>1, <3>2, TriedStays
    <3>4. QED
      BY <1>1, <2>1, <3>3 DEF TryingFor, Untried, Unserved, CallAt
  <2>4. QED
    BY <2>2, <2>3
<1>3. ASSUME Begun(x), d = x PROVE TryingFor(d)'
  <2>1. tried'[callsMade + 1] = <<>>
    BY <1>3, TriedStays
  <2>2. QED
    BY <1>3, <2>1 DEF Begun, TryingFor, Untried, Unserved, CallAt
<1>4. ASSUME ~Begun(x), ~Failed(x), spend[x].at # "idle" PROVE tried'[spend[x].no] = tried[spend[x].no]
  BY <1>4, TriedStays, CallFacts
<1>5. ASSUME Advanced(x), d = x PROVE TryingFor(d)'
  <2>1. ~Begun(x) /\ ~Failed(x) /\ spend[x].at # "idle" /\ spend[x].at # "call"
    BY <1>5 DEF Advanced, Begun, Failed
  <2>2. tried'[spend[x].no] = tried[spend[x].no] /\ ~spend[x].started
    BY <1>4, <1>5, <2>1, CallFacts DEF Advanced
  <2>3. CASE spend[x].at = "check" /\ spend[x].kind = "api" /\ Moved(x, "route")
    BY <1>1, <1>5, <2>2, <2>3 DEF Moved, SameFor, TryingFor, Untried, Unserved, CallAt
  <2>4. CASE spend[x].at = "check" /\ spend[x].kind = "chat" /\ Moved(x, "call")
    BY <1>1, <1>5, <2>2, <2>4 DEF Moved, SameFor, TryingFor, Untried, Unserved, CallAt
  <2>5. CASE spend[x].at = "route" /\ Offers = <<>> /\ Moved(x, "unavailable")
    <3>1. Providers = {} /\ ToSet(<<>>) = {}
      BY <2>5 DEF Providers, ToSet
    <3>2. tried[spend[x].no] = <<>>
      BY <1>1, <2>2, <2>5 DEF TryingFor, Untried, Unserved
    <3>3. QED
      BY <1>5, <2>2, <2>5, <3>1, <3>2 DEF Moved, SameFor, TryingFor, Untried, Unserved, CallAt
  <2>6. QED
    BY <1>5, <2>3, <2>4, <2>5 DEF Advanced
<1>6. ASSUME GotRoutes(x), d = x PROVE TryingFor(d)'
  <2>1. ~Begun(x) /\ ~Failed(x) /\ spend[x].at = "route"
    BY <1>6 DEF GotRoutes, Begun, Failed
  <2>2. tried'[spend[x].no] = tried[spend[x].no] /\ ~spend[x].started
    BY <1>4, <2>1, CallFacts
  <2>3. tried[spend[x].no] = <<>> /\ ToSet(<<>>) = {}
    BY <1>1, <2>1, <2>2 DEF TryingFor, Untried, Unserved, ToSet
  <2>4. Whole(spend'[x].routes) /\ spend'[x].no = spend[x].no /\ Untried(x)' /\ ~CallAt(x, "unavailable")'
    BY <1>6 DEF GotRoutes, Routed, SameFor, Untried, CallAt
  <2>5. QED
    BY <1>6, <2>2, <2>3, <2>4 DEF Whole, TryingFor
<1>7. ASSUME Failed(x), d = x PROVE TryingFor(d)'
  <2>1. IF Len(spend[x].routes) > 1
        THEN /\ Tail(spend[x].routes) # <<>> /\ IsInjective(Tail(spend[x].routes))
             /\ ToSet(Tail(spend[x].routes)) \union ToSet(tried'[spend[x].no]) = Providers
             /\ ToSet(Tail(spend[x].routes)) \intersect ToSet(tried'[spend[x].no]) = {}
        ELSE ToSet(tried'[spend[x].no]) = Providers
    BY <1>7, FailedProvider
  <2>2. CASE Len(spend[x].routes) > 1
    <3>1. Retried(x, IF spend[x].kind = "api" THEN "call" ELSE "check") /\ spend[x].kind \in {"api", "chat"}
      <4>1. spend[x].kind \in {"none", "api", "chat"}
        BY CallFacts DEF Spending
      <4>2. spend[x].kind # "none"
        BY <1>7 DEF Failed, WalletInv, Standing
      <4>3. QED
        BY <1>7, <2>2, <4>1, <4>2 DEF Failed
    <3>2. spend'[x].routes = Tail(spend[x].routes) /\ spend'[x].no = spend[x].no /\ Untried(x)' /\ ~CallAt(x, "unavailable")'
      BY <3>1 DEF Retried, SameFor, Untried, CallAt
    <3>3. QED
      BY <1>7, <2>1, <2>2, <3>2 DEF TryingFor
  <2>3. CASE ~ (Len(spend[x].routes) > 1)
    <3>1. spend'[x].no = spend[x].no /\ spend'[x].at = "unavailable"
      BY <1>7, <2>3 DEF Failed, Moved, SameFor
    <3>2. QED
      BY <1>7, <2>1, <2>3, <3>1 DEF TryingFor, Untried, Unserved, CallAt
  <2>4. QED
    BY <2>2, <2>3
<1>8. ASSUME Left(x) \/ KeyAdded(x) \/ KeyLost(x), d = x PROVE TryingFor(d)'
  BY <1>8, NoCallShape DEF Left, KeyAdded, KeyLost, Gone, TryingFor, Untried, Unserved, CallAt
<1>9. ASSUME WasServed(x) \/ WasCharged(x) \/ ChargeLost(x), d = x PROVE TryingFor(d)'
  <2>1. spend'[x].at = "idle" \/ (spend'[x].at \in {"settle", "key", "more"} /\ spend'[x].started)
    BY <1>9, CallFacts, NoCallShape DEF WasServed, WasCharged, ChargeLost, Answered, Moved, Gone, SameFor
  <2>2. QED
    BY <1>9, <2>1 DEF TryingFor, Untried, Unserved, CallAt
<1>10. QED
  BY <1>2, <1>3, <1>5, <1>6, <1>7, <1>8, <1>9 DEF OfCall

\* Every step keeps what was tried and what is left to try.
LEMMA TryingKept ==
  ASSUME WalletInv, [WalletNext]_walletVars
  PROVE  Trying'
<1>1. Trying /\ EveryProviderIsTried /\ served \subseteq (1 .. callsMade) \X Providers /\ callsMade \in Nat
  BY DEF WalletInv, Trying, WalletShape
<1>2. CASE Elsewhere
  BY <1>1, <1>2 DEF Elsewhere, SameBooks, SameCalls, Trying, EveryProviderIsTried, Unserved, Untried, CallAt
<1>3. ASSUME NEW x \in Calls, OfCall(x) PROVE Trying'
  <2>1. \A d \in Calls : TryingFor(d)'
    BY <1>3, TryingForKept
  <2>2. ASSUME NEW no \in DOMAIN tried' PROVE IsInjective(tried'[no])
    <3>1. CASE Failed(x) /\ no = spend[x].no
      BY <3>1, FailedProvider
    <3>2. CASE no \in 1 .. callsMade /\ ~ (Failed(x) /\ no = spend[x].no)
      BY <1>1, <1>3, <3>2, TriedStays DEF EveryProviderIsTried
    <3>3. CASE no \notin 1 .. callsMade
      <4>1. callsMade' = callsMade + 1 /\ Begun(x) /\ no = callsMade + 1
        BY <1>1, <1>3, <2>2, <3>3, TriedStays, MadeGrows
      <4>2. tried'[no] = <<>>
        BY <1>3, <4>1, TriedStays
      <4>3. QED
        BY <4>2 DEF IsInjective
    <3>4. QED
      BY <3>1, <3>2, <3>3
  <2>3. ASSUME NEW s \in served', NEW t \in served', s[1] = t[1]
        PROVE  s = t /\ s[2] \notin ToSet(tried'[s[1]])
    <3>1. CASE s \in served /\ t \in served
      <4>1. s = t /\ s[2] \notin ToSet(tried[s[1]])
        BY <1>1, <2>3, <3>1 DEF EveryProviderIsTried
      <4>2. ~ (Failed(x) /\ s[1] = spend[x].no)
        <5>1. Failed(x) => Unserved(x)
          BY CallFacts DEF Failed, Unserved
        <5>2. QED
          BY <3>1, <5>1 DEF WalletInv, Numbers
      <4>3. s[1] \in 1 .. callsMade
        BY <1>1, <3>1
      <4>4. tried'[s[1]] = tried[s[1]]
        BY <1>3, <4>2, <4>3, TriedStays
      <4>5. QED
        BY <4>1, <4>4
    <3>2. CASE ~ (s \in served /\ t \in served)
      <4>1. WasServed(x)
        BY <1>3, <3>2
        DEF OfCall, Begun, Advanced, GotRoutes, Failed, Left, WasCharged, ChargeLost, KeyAdded, KeyLost, SameBooks
      <4> DEFINE new == <<spend[x].no, Head(spend[x].routes)>>
      <4>2. served' = served \union {new} /\ spend[x].at = "call" /\ Unserved(x) /\ new[1] = spend[x].no
        BY <4>1, CallFacts DEF WasServed, Unserved
      <4>3. \A u \in served : u[1] # spend[x].no
        BY <4>2 DEF WalletInv, Numbers
      <4>4. s = new /\ t = new
        BY <2>3, <3>2, <4>2, <4>3
      <4>5. Head(spend[x].routes) \notin ToSet(tried[spend[x].no])
        <5>1. /\ spend[x].routes \in Seq(Providers) /\ spend[x].routes # <<>> /\ IsInjective(spend[x].routes)
              /\ ToSet(spend[x].routes) \intersect ToSet(tried[spend[x].no]) = {}
          BY <1>1, <4>2, CallFacts DEF Trying, Untried, Spending
        <5>2. Head(spend[x].routes) \in ToSet(spend[x].routes)
          BY <5>1, TailSet
        <5>3. QED
          BY <5>1, <5>2
      <4>6. tried'[spend[x].no] = tried[spend[x].no]
        <5>1. ~Failed(x)
          BY <4>1, <4>3, <4>2 DEF WasServed, Failed, SameBooks
        <5>2. QED
          BY <1>3, <4>2, <5>1, TriedStays, CallFacts
      <4>7. QED
        BY <4>4, <4>5, <4>6
    <3>3. QED
      BY <3>1, <3>2
  <2>4. QED
    BY <2>1, <2>2, <2>3 DEF Trying, TryingFor, EveryProviderIsTried
<1>4. QED
  BY <1>2, <1>3, WalletSteps

\* One more entry charges its provider's price.
LEMMA OneMoreCharge ==
  ASSUME NEW entries \in Seq(Entry), NEW e \in Entry
  PROVE  Charged(Append(entries, e)) = Charged(entries) + Price[e.provider] /\ Charged(entries) \in Int
<1> DEFINE more == Append(entries, e)
           N == Len(entries)
<1>1. /\ more \in Seq(Entry) /\ N \in Nat /\ Len(more) = N + 1 /\ more[N + 1] = e
      /\ \A n \in 1 .. N : more[n] = entries[n]
  OBVIOUS
<1>2. PICK g \in [0 .. N -> Int] :
        /\ g[0] = 0 /\ Charged(entries) = g[N]
        /\ \A n \in 1 .. N : g[n] = g[n - 1] + Price[entries[n].provider]
  BY ChargedRuns
<1> HIDE DEF more
<1>3. PICK h \in [0 .. N + 1 -> Int] :
        /\ h[0] = 0 /\ Charged(more) = h[N + 1]
        /\ \A n \in 1 .. N + 1 : h[n] = h[n - 1] + Price[more[n].provider]
  <2>1. more \in Seq(Entry) /\ Len(more) = N + 1
    BY <1>1
  <2> HIDE DEF N
  <2>2. \E h \in [0 .. Len(more) -> Int] :
          /\ h[0] = 0 /\ Charged(more) = h[Len(more)]
          /\ \A n \in 1 .. Len(more) : h[n] = h[n - 1] + Price[more[n].provider]
    BY <2>1, ChargedRuns, Zenon
  <2>3. QED
    BY <2>1, <2>2
<1> HIDE DEF N
<1> DEFINE f == [n \in 0 .. N |-> h[n]]
<1>4. f \in [0 .. N -> Int] /\ f[0] = 0 /\ f[N] = h[N]
  BY <1>1, <1>3
<1>5. \A n \in 1 .. N : n \in 0 .. N /\ n - 1 \in 0 .. N /\ n \in 1 .. N + 1
  BY <1>1
<1>6. \A n \in 1 .. N : Price[entries[n].provider] \in Int
  <2>1. \A n \in 1 .. N : entries[n] \in Entry
    BY DEF N
  <2>2. \A x \in Entry : Price[x.provider] \in Int
    BY WalletAssumption DEF Entry, Providers
  <2>3. QED
    BY <2>1, <2>2
<1>7. ASSUME NEW n \in 1 .. N PROVE f[n] - f[n - 1] = g[n] - g[n - 1]
  <2>1. f[n] = h[n] /\ f[n - 1] = h[n - 1] /\ h[n - 1] \in Int /\ g[n - 1] \in Int
    BY <1>1, <1>5
  <2>2. h[n] = h[n - 1] + Price[entries[n].provider] /\ g[n] = g[n - 1] + Price[entries[n].provider]
    BY <1>1, <1>2, <1>3, <1>5
  <2>3. QED
    BY <1>6, <2>1, <2>2
<1> HIDE DEF f
<1>8. f[N] = g[N]
  BY <1>1, <1>2, <1>4, <1>7, SameSteps
<1>9. h[N + 1] = h[N] + Price[e.provider]
  <2>1. N + 1 \in 1 .. N + 1 /\ N + 1 - 1 = N
    BY <1>1
  <2>2. h[N + 1] = h[N + 1 - 1] + Price[more[N + 1].provider]
    BY <1>3, <2>1
  <2>3. QED
    BY <1>1, <2>1, <2>2
<1>10. g[N] \in Int
  BY <1>1
<1>11. QED
  BY <1>2, <1>3, <1>4, <1>8, <1>9, <1>10 DEF more

\* What a charge does to the ledger.
NewEntry(c, N) ==
  /\ Len(ledger) = N /\ DOMAIN ledger = 1 .. N
  /\ Len(ledger') = N + 1 /\ DOMAIN ledger' = 1 .. N + 1
  /\ \A n \in 1 .. N : ledger'[n] = ledger[n] /\ ledger[n].call # spend[c].no
  /\ ledger'[N + 1] = [call |-> spend[c].no, provider |-> spend[c].by]

\* Settling a call writes one entry, of a number that is not in the ledger.
LEMMA ChargedEntry ==
  ASSUME WalletInv, NEW c \in Calls, WasCharged(c)
  PROVE  /\ [call |-> spend[c].no, provider |-> spend[c].by] \in Entry
         /\ <<spend[c].no, spend[c].by>> \in served
         /\ \E N \in Nat : NewEntry(c, N)
<1>1. ledger \in Seq(Entry) /\ callsMade \in Nat
  BY DEF WalletInv, WalletShape
<1>2. spend[c].at = "settle" /\ spend[c].started
  BY CallFacts DEF WasCharged
<1>3. [call |-> spend[c].no, provider |-> spend[c].by] \in Entry
  BY <1>1, <1>2, CallFacts DEF Entry
<1>4. ledger' = Append(ledger, [call |-> spend[c].no, provider |-> spend[c].by])
  BY DEF WasCharged, ApplyCharge
<1>5. <<spend[c].no, spend[c].by>> \in served
  BY <1>2 DEF WalletInv, Numbers
<1>6. \A n \in DOMAIN ledger : ledger[n].call # spend[c].no
  BY <1>2 DEF WalletInv, Books, CallAt
<1> DEFINE N == Len(ledger)
           e == [call |-> spend[c].no, provider |-> spend[c].by]
<1> HIDE DEF e
<1>7. /\ N \in Nat /\ Len(ledger) = N /\ DOMAIN ledger = 1 .. N
      /\ Len(ledger') = N + 1 /\ DOMAIN ledger' = 1 .. N + 1
      /\ \A n \in 1 .. N : ledger'[n] = ledger[n]
      /\ ledger'[N + 1] = e
  BY <1>1, <1>3, <1>4 DEF e
<1> HIDE DEF N
<1>8. \A n \in 1 .. N : ledger'[n] = ledger[n] /\ ledger[n].call # spend[c].no
  BY <1>6, <1>7
<1>9. QED
  BY <1>3, <1>5, <1>7, <1>8, Zenon DEF e, NewEntry

\* The ledger grows by charges only.
LEMMA LedgerStays ==
  ASSUME NEW c \in Calls, OfCall(c), ~WasCharged(c)
  PROVE  ledger' = ledger /\ balance' = balance
BY DEF OfCall, Begun, Advanced, GotRoutes, Failed, Left, WasServed, ChargeLost, KeyAdded, KeyLost, SameBooks

\* Every step keeps the balance, the ledger and what was served in step.
LEMMA BooksKept ==
  ASSUME WalletInv, [WalletNext]_walletVars
  PROVE  Books'
<1>1. Books /\ Numbers /\ ledger \in Seq(Entry) /\ balance \in Int
  BY DEF WalletInv, WalletShape
<1>2. CASE Elsewhere
  BY <1>1, <1>2 DEF Elsewhere, SameBooks, Books, CallAt, Under
<1>3. ASSUME NEW x \in Calls, OfCall(x) PROVE Books'
  <2>1. \A d \in Calls : d # x => spend'[d] = spend[d]
    BY <1>3, OthersStay
  <2>2. served \subseteq served' /\ unbilled \subseteq unbilled'
    BY <1>3 DEF OfCall, Begun, Advanced, GotRoutes, Failed, Left, WasServed, WasCharged, ChargeLost, KeyAdded, KeyLost,
                SameBooks
  <2>3. balance' = Credit - Charged(ledger')
    <3>1. CASE WasCharged(x)
      <4> DEFINE e == [call |-> spend[x].no, provider |-> spend[x].by]
      <4>1. e \in Entry /\ e.provider = spend[x].by
        BY <3>1, ChargedEntry
      <4>2. ledger' = Append(ledger, e) /\ balance' = balance - Price[spend[x].by]
        BY <3>1 DEF WasCharged, ApplyCharge
      <4> HIDE DEF e
      <4>3. Charged(ledger') = Charged(ledger) + Price[spend[x].by] /\ Charged(ledger) \in Int
        BY <1>1, <4>1, <4>2, OneMoreCharge
      <4>4. Price[spend[x].by] \in Int /\ Credit \in Int
        BY <3>1, CallFacts, WalletAssumption DEF WasCharged
      <4>5. QED
        BY <1>1, <4>2, <4>3, <4>4 DEF Books
    <3>2. CASE ~WasCharged(x)
      BY <1>1, <1>3, <3>2, LedgerStays DEF Books
    <3>3. QED
      BY <3>1, <3>2
  <2>4. /\ \A i \in DOMAIN ledger' : <<ledger'[i].call, ledger'[i].provider>> \in served'
        /\ \A i, k \in DOMAIN ledger' : ledger'[i] = ledger'[k] => i = k
    <3>1. CASE WasCharged(x)
      <4>0. PICK N \in Nat : NewEntry(x, N)
        BY <3>1, ChargedEntry, Zenon
      <4>1. \A i \in 1 .. N + 1 : i \in 1 .. N \/ i = N + 1
        OBVIOUS
      <4>2. /\ DOMAIN ledger = 1 .. N /\ DOMAIN ledger' = 1 .. N + 1
            /\ \A n \in 1 .. N : ledger'[n] = ledger[n] /\ ledger[n].call # spend[x].no
            /\ ledger'[N + 1].call = spend[x].no /\ ledger'[N + 1].provider = spend[x].by
            /\ <<spend[x].no, spend[x].by>> \in served
        BY <3>1, <4>0, ChargedEntry DEF NewEntry
      <4>3. \A i \in DOMAIN ledger' : <<ledger'[i].call, ledger'[i].provider>> \in served'
        BY <1>1, <2>2, <4>1, <4>2 DEF Books
      <4>4. \A i, k \in DOMAIN ledger' : ledger'[i] = ledger'[k] => i = k
        BY <1>1, <4>1, <4>2 DEF Books
      <4>5. QED
        BY <4>3, <4>4
    <3>2. CASE ~WasCharged(x)
      BY <1>1, <1>3, <2>2, <3>2, LedgerStays DEF Books
    <3>3. QED
      BY <3>1, <3>2
  <2>5. \A i \in DOMAIN ledger : i \in DOMAIN ledger' /\ ledger'[i] = ledger[i]
    <3>1. CASE WasCharged(x)
      <4>1. PICK N \in Nat : NewEntry(x, N)
        BY <3>1, ChargedEntry, Zenon
      <4>2. QED
        BY <4>1 DEF NewEntry
    <3>2. CASE ~WasCharged(x)
      BY <1>3, <3>2, LedgerStays
    <3>3. QED
      BY <3>1, <3>2
  <2>6. ASSUME NEW s \in served'
        PROVE  \/ \E i \in DOMAIN ledger' : ledger'[i] = [call |-> s[1], provider |-> s[2]]
               \/ s[1] \in unbilled'
               \/ \E c \in Calls : spend'[c].no = s[1] /\ spend'[c].at = "settle"
    <3>1. CASE s \notin served
      <4>1. WasServed(x) /\ s = <<spend[x].no, Head(spend[x].routes)>>
        BY <1>3, <2>6, <3>1
        DEF OfCall, Begun, Advanced, GotRoutes, Failed, Left, WasServed, WasCharged, ChargeLost, KeyAdded, KeyLost, SameBooks
      <4>2. spend'[x].no = s[1] /\ spend'[x].at = "settle"
        BY <4>1 DEF WasServed, Answered
      <4>3. QED
        BY <4>2
    <3>2. CASE \E i \in DOMAIN ledger : ledger[i] = [call |-> s[1], provider |-> s[2]]
      BY <2>5, <3>2
    <3>3. CASE s[1] \in unbilled
      BY <2>2, <3>3
    <3>4. ASSUME s \in served, NEW c \in Calls, spend[c].no = s[1], spend[c].at = "settle"
          PROVE  \/ \E i \in DOMAIN ledger' : ledger'[i] = [call |-> s[1], provider |-> s[2]]
                 \/ s[1] \in unbilled'
                 \/ \E d \in Calls : spend'[d].no = s[1] /\ spend'[d].at = "settle"
      <4>1. CASE c # x
        BY <2>1, <3>4, <4>1
      <4>2. CASE c = x /\ WasCharged(x)
        <5>1. PICK i \in DOMAIN ledger' : ledger'[i] = [call |-> spend[x].no, provider |-> spend[x].by]
          <6>1. PICK N \in Nat : NewEntry(x, N)
            BY <4>2, ChargedEntry, Zenon
          <6>2. N + 1 \in DOMAIN ledger'
            BY <6>1 DEF NewEntry
          <6>3. QED
            BY <6>1, <6>2, Zenon DEF NewEntry
        <5>2. s = <<spend[x].no, spend[x].by>>
          <6>1. <<spend[x].no, spend[x].by>> \in served
            BY <4>2, ChargedEntry
          <6>2. QED
            BY <3>4, <4>2, <6>1 DEF WalletInv, Trying, EveryProviderIsTried
        <5>3. QED
          BY <5>1, <5>2
      <4>3. CASE c = x /\ ChargeLost(x)
        BY <3>4, <4>3 DEF ChargeLost
      <4>4. QED
        BY <1>3, <3>4, <4>1, <4>2, <4>3
        DEF OfCall, Begun, Advanced, GotRoutes, Failed, Left, WasServed, KeyAdded, KeyLost
    <3>5. QED
      BY <1>1, <3>1, <3>2, <3>3, <3>4 DEF Books, Under, CallAt
  <2>7. ASSUME NEW c \in Calls, spend'[c].at = "settle", NEW i \in DOMAIN ledger'
        PROVE  ledger'[i].call # spend'[c].no
    <3>1. CASE WasCharged(x)
      <4>1. c # x
        BY <2>7, <3>1 DEF WasCharged, Moved
      <4>2. spend[c].at = "settle" /\ spend'[c].no = spend[c].no
        BY <2>1, <2>7, <4>1
      <4>3. spend[c].no # spend[x].no
        BY <1>1, <3>1, <4>1, <4>2 DEF Numbers
      <4>4. \A n \in DOMAIN ledger : ledger[n].call # spend[c].no
        BY <1>1, <4>2 DEF Books, CallAt
      <4>5. PICK N \in Nat : NewEntry(x, N)
        BY <3>1, ChargedEntry, Zenon
      <4>6. i \in DOMAIN ledger \/ (i = N + 1 /\ ledger'[i].call = spend[x].no)
        BY <2>7, <4>5 DEF NewEntry
      <4>7. QED
        BY <2>5, <4>2, <4>3, <4>4, <4>6
    <3>2. CASE WasServed(x) /\ c = x
      <4>1. ledger' = ledger /\ spend'[x].no = spend[x].no /\ Unserved(x)
        BY <3>2, CallFacts DEF WasServed, Answered, Unserved
      <4>2. QED
        BY <1>1, <2>7, <3>2, <4>1 DEF Books, Numbers
    <3>3. CASE ~WasCharged(x) /\ ~ (WasServed(x) /\ c = x)
      <4>1. ledger' = ledger
        BY <1>3, <3>3, LedgerStays
      <4>2. c # x
        <5>1. CASE c = x
          BY <1>3, <2>7, <3>3, <5>1, NoCallShape
          DEF OfCall, Begun, Advanced, GotRoutes, Failed, Left, ChargeLost, KeyAdded, KeyLost, Moved, Gone, Routed, Retried
        <5>2. QED
          BY <5>1
      <4>3. QED
        BY <1>1, <2>1, <2>7, <4>1, <4>2 DEF Books, CallAt
    <3>4. QED
      BY <3>1, <3>2, <3>3
  <2>8. QED
    BY <2>3, <2>4, <2>6, <2>7 DEF Books, CallAt, Under
<1>4. QED
  BY <1>2, <1>3, WalletSteps

\* Every step keeps what the key shows in step with the ledger.
LEMMA KeyKept ==
  ASSUME WalletInv, [WalletNext]_walletVars
  PROVE  KeyIsCharged'
<1> DEFINE N == Len(ledger)
<1>1. PICK k : KeyShows(k)
  BY DEF WalletInv, KeyIsCharged
<1>2. N \in Nat /\ keyUsed \in Nat /\ ledger \in Seq(Entry) /\ DOMAIN ledger = 1 .. N
  BY DEF WalletInv, WalletShape
<1> HIDE DEF N
<1>3. /\ k \in [0 .. N -> Nat] /\ k[0] = 0 /\ k[N] = keyUsed
      /\ \A n \in 1 .. N : k[n] - k[n - 1] \in {0, Price[ledger[n].provider]}
  BY <1>1 DEF KeyShows, N
<1>4. \A c \in Calls : spend[c].at = "key" =>
        \E n \in 1 .. N : ledger[n] = [call |-> spend[c].no, provider |-> spend[c].by] /\ k[n] = k[n - 1]
  BY <1>1 DEF KeyShows, CallAt, N
<1>5. CASE Elsewhere
  <2>1. UNCHANGED <<ledger, keyUsed, spend>>
    BY <1>5 DEF Elsewhere, SameBooks
  <2>2. KeyShows(k)'
    BY <1>1, <2>1 DEF KeyShows, CallAt
  <2>3. QED
    BY <2>2 DEF KeyIsCharged
<1>6. ASSUME NEW x \in Calls, OfCall(x), ~WasCharged(x), ~KeyAdded(x) PROVE KeyIsCharged'
  <2>1. ledger' = ledger /\ keyUsed' = keyUsed
    BY <1>6, LedgerStays DEF OfCall, Begun, Advanced, GotRoutes, Failed, Left, WasServed, ChargeLost, KeyLost, SameBooks
  <2>2. ASSUME NEW c \in Calls, spend'[c].at = "key" PROVE spend'[c] = spend[c]
    <3>1. c # x
      <4>1. CASE c = x
        BY <1>6, <2>2, <4>1, NoCallShape
        DEF OfCall, Begun, Advanced, GotRoutes, Failed, Left, WasServed, ChargeLost, KeyLost,
            Moved, Gone, Routed, Retried, Answered
      <4>2. QED
        BY <4>1
    <3>2. QED
      BY <1>6, <3>1, OthersStay
  <2>3. KeyShows(k)'
    BY <1>1, <2>1, <2>2 DEF KeyShows, CallAt
  <2>4. QED
    BY <2>3 DEF KeyIsCharged
<1>7. ASSUME NEW x \in Calls, WasCharged(x) PROVE KeyIsCharged'
  <2> DEFINE h == [n \in 0 .. N + 1 |-> IF n = N + 1 THEN keyUsed ELSE k[n]]
             e == [call |-> spend[x].no, provider |-> spend[x].by]
  <2>1. /\ Len(ledger') = N + 1 /\ ledger'[N + 1] = e
        /\ \A n \in 1 .. N : ledger'[n] = ledger[n] /\ ledger[n].call # spend[x].no
    <3>1. PICK M \in Nat : NewEntry(x, M)
      BY <1>7, ChargedEntry, Zenon
    <3>2. M = N
      BY <3>1 DEF NewEntry, N
    <3>3. QED
      BY <3>1, <3>2, Zenon DEF NewEntry
  <2>2. h \in [0 .. N + 1 -> Nat] /\ h[0] = 0 /\ h[N + 1] = keyUsed
    BY <1>2, <1>3
  <2>3. \A n \in 1 .. N : h[n] = k[n] /\ h[n - 1] = k[n - 1]
    BY <1>2
  <2>4. h[N] = keyUsed /\ keyUsed - keyUsed = 0
    BY <1>2, <1>3
  <2>5. \A n \in 1 .. N + 1 : n \in 1 .. N \/ n = N + 1
    BY <1>2
  <2> HIDE DEF h, e
  <2>6. \A n \in 1 .. N + 1 : h[n] - h[n - 1] \in {0, Price[ledger'[n].provider]}
    <3>1. ASSUME NEW n \in 1 .. N PROVE h[n] - h[n - 1] \in {0, Price[ledger'[n].provider]}
      BY <1>3, <2>1, <2>3
    <3>2. ASSUME NEW n \in 1 .. N + 1, n = N + 1 PROVE h[n] - h[n - 1] = 0
      <4>1. n - 1 = N
        BY <1>2, <3>2
      <4>2. QED
        BY <2>2, <2>4, <3>2, <4>1
    <3>3. QED
      BY <2>5, <3>1, <3>2
  <2>7. ASSUME NEW c \in Calls, spend'[c].at = "key"
        PROVE  \E n \in 1 .. N + 1 :
                  ledger'[n] = [call |-> spend'[c].no, provider |-> spend'[c].by] /\ h[n] = h[n - 1]
    <3>1. CASE c = x
      <4>1. spend'[c].no = spend[x].no /\ spend'[c].by = spend[x].by
        BY <1>7, <3>1 DEF WasCharged, Moved, SameFor
      <4>2. PICK n \in 1 .. N + 1 : n = N + 1
        BY <1>2
      <4>3. h[n] = h[n - 1]
        <5>1. n - 1 = N
          BY <1>2, <4>2
        <5>2. QED
          BY <2>2, <2>4, <4>2, <5>1
      <4>4. ledger'[n] = [call |-> spend'[c].no, provider |-> spend'[c].by]
        BY <2>1, <4>1, <4>2 DEF e
      <4>5. QED
        BY <4>3, <4>4
    <3>2. CASE c # x
      <4>1. spend'[c] = spend[c]
        BY <1>7, <3>2, OthersStay DEF OfCall
      <4>2. PICK n \in 1 .. N : ledger[n] = [call |-> spend[c].no, provider |-> spend[c].by] /\ k[n] = k[n - 1]
        BY <1>4, <2>7, <4>1
      <4>3. n \in 1 .. N + 1 /\ ledger'[n] = ledger[n] /\ h[n] = h[n - 1]
        BY <1>2, <2>1, <2>3, <4>2
      <4>4. QED
        BY <4>1, <4>2, <4>3
    <3>3. QED
      BY <3>1, <3>2
  <2>8. keyUsed' = keyUsed
    BY <1>7 DEF WasCharged
  <2>9. PICK f : f = h
    OBVIOUS
  <2>10. KeyShows(f)'
    BY <2>1, <2>2, <2>6, <2>7, <2>8, <2>9 DEF KeyShows, CallAt
  <2>11. QED
    BY <2>10 DEF KeyIsCharged
<1>8. ASSUME NEW x \in Calls, KeyAdded(x) PROVE KeyIsCharged'
  <2>1. ledger' = ledger /\ keyUsed' = keyUsed + Price[spend[x].by] /\ spend[x].at = "key" /\ spend'[x] = NoCall
    BY <1>8 DEF KeyAdded, Gone
  <2>2. PICK i \in 1 .. N : ledger[i] = [call |-> spend[x].no, provider |-> spend[x].by] /\ k[i] = k[i - 1]
    BY <1>4, <2>1
  <2> DEFINE price == Price[spend[x].by]
             h == [n \in 0 .. N |-> IF i <= n THEN k[n] + price ELSE k[n]]
  <2>3. price \in Nat
    BY <2>1, CallFacts
  <2>4. i \in Nat /\ i # 0 /\ i <= N /\ i - 1 \in 0 .. N /\ i \in 0 .. N
    BY <1>2
  <2> HIDE DEF price
  <2>5. h \in [0 .. N -> Nat]
    BY <1>2, <1>3, <2>3
  <2>6. h[0] = 0 /\ h[N] = keyUsed + price
    BY <1>2, <1>3, <2>4
  <2>7. ASSUME NEW n \in 1 .. N
        PROVE  /\ n = i => h[n] - h[n - 1] = price
               /\ n # i => h[n] - h[n - 1] = k[n] - k[n - 1] /\ (k[n] = k[n - 1] => h[n] = h[n - 1])
    <3>1. n \in 0 .. N /\ n - 1 \in 0 .. N /\ k[n] \in Nat /\ k[n - 1] \in Nat /\ n \in Nat
      BY <1>2, <1>3
    <3>2. CASE n = i
      <4>1. h[n] = k[n] + price /\ h[n - 1] = k[n - 1]
        BY <2>4, <3>1, <3>2
      <4>2. QED
        BY <2>2, <2>3, <3>1, <3>2, <4>1
    <3>3. CASE i <= n - 1
      <4>1. h[n] = k[n] + price /\ h[n - 1] = k[n - 1] + price /\ n # i
        BY <2>4, <3>1, <3>3
      <4>2. QED
        BY <2>3, <3>1, <4>1
    <3>4. CASE ~ (i <= n)
      <4>1. h[n] = k[n] /\ h[n - 1] = k[n - 1] /\ n # i
        BY <2>4, <3>1, <3>4
      <4>2. QED
        BY <4>1
    <3>5. i <= n - 1 \/ n = i \/ ~ (i <= n)
      BY <2>4, <3>1
    <3>6. QED
      BY <3>2, <3>3, <3>4, <3>5
  <2> HIDE DEF h
  <2>8. ledger[i].provider = spend[x].by /\ ledger[i].call = spend[x].no
    BY <2>2
  <2>9. \A n \in 1 .. N : h[n] - h[n - 1] \in {0, Price[ledger[n].provider]}
    BY <1>3, <2>7, <2>8 DEF price
  <2>10. ASSUME NEW c \in Calls, spend'[c].at = "key"
         PROVE  \E n \in 1 .. N :
                   ledger[n] = [call |-> spend'[c].no, provider |-> spend'[c].by] /\ h[n] = h[n - 1]
    <3>1. c # x
      BY <2>1, <2>10, NoCallShape
    <3>2. spend'[c] = spend[c]
      BY <1>8, <3>1, OthersStay DEF OfCall
    <3>3. PICK n \in 1 .. N : ledger[n] = [call |-> spend[c].no, provider |-> spend[c].by] /\ k[n] = k[n - 1]
      BY <1>4, <2>10, <3>2
    <3>4. ledger[n].call = spend[c].no
      BY <3>3
    <3>5. spend[c].no # spend[x].no
      BY <2>1, <2>10, <3>1, <3>2 DEF WalletInv, Numbers
    <3>6. n # i
      BY <2>8, <3>4, <3>5
    <3>7. QED
      BY <2>7, <3>2, <3>3, <3>6
  <2>11. Len(ledger) = N
    BY DEF N
  <2>12. PICK f : f = h
    OBVIOUS
  <2>13. KeyShows(f)'
    BY <2>1, <2>5, <2>6, <2>9, <2>10, <2>11, <2>12 DEF KeyShows, CallAt, price
  <2>14. QED
    BY <2>13 DEF KeyIsCharged
<1>9. QED
  BY <1>5, <1>6, <1>7, <1>8, WalletSteps

\* A request that begins or stops being served counts one more or one less.
LEMMA CountedKept ==
  ASSUME WalletInv, [WalletNext]_walletVars
  PROVE  Counted'
<1>1. inflight = Cardinality(BeingServed) /\ BeingServed \subseteq Calls
  BY DEF WalletInv, Counted, BeingServed
<1>2. IsFiniteSet(BeingServed)
  BY <1>1, WalletAssumption, FS_Subset
<1>3. Cardinality(BeingServed) \in Nat
  BY <1>2, FS_CardinalityType
<1>4. CASE Elsewhere
  BY <1>1, <1>4 DEF Elsewhere, BeingServed, Counted
<1>5. ASSUME NEW x \in Calls, OfCall(x) PROVE Counted'
  <2> DEFINE Was == spend[x].kind = "api" /\ spend[x].at \in {"route", "call"}
             Is == spend'[x].kind = "api" /\ spend'[x].at \in {"route", "call"}
  <2>1. \A d \in Calls : d # x => spend'[d] = spend[d]
    BY <1>5, OthersStay
  <2>2. BeingServed' = IF Is THEN BeingServed \union {x} ELSE BeingServed \ {x}
    BY <2>1 DEF BeingServed
  <2>3. x \in BeingServed <=> Was
    BY DEF BeingServed
  <2>4. /\ Cardinality(BeingServed \union {x}) = IF Was THEN inflight ELSE inflight + 1
        /\ Cardinality(BeingServed \ {x}) = IF Was THEN inflight - 1 ELSE inflight
    BY <1>1, <1>2, <2>3, FS_AddElement, FS_RemoveElement
  <2>5. inflight' = IF Is THEN (IF Was THEN inflight ELSE inflight + 1)
                    ELSE (IF Was THEN inflight - 1 ELSE inflight)
    <3>1. CASE Begun(x)
      BY <3>1, CallFacts, NoCallShape DEF Begun
    <3>2. CASE Advanced(x)
      BY <3>2 DEF Advanced, Moved, SameFor, LeaveCall
    <3>3. CASE GotRoutes(x)
      <4>1. spend[x].kind \in {"none", "api", "chat"}
        BY CallFacts DEF Spending
      <4>2. QED
        BY <3>3, <4>1 DEF GotRoutes, Routed, SameFor
    <3>4. CASE Failed(x)
      BY <3>4 DEF Failed, Retried, Moved, SameFor, LeaveCall
    <3>5. CASE Left(x)
      BY <3>5, NoCallShape DEF Left, Gone, LeaveCall
    <3>6. CASE WasServed(x)
      BY <3>6 DEF WasServed, Answered, LeaveCall
    <3>7. CASE WasCharged(x) \/ ChargeLost(x) \/ KeyAdded(x) \/ KeyLost(x)
      BY <3>7, NoCallShape DEF WasCharged, ChargeLost, KeyAdded, KeyLost, Moved, Gone
    <3>8. QED
      BY <1>5, <3>1, <3>2, <3>3, <3>4, <3>5, <3>6, <3>7 DEF OfCall
  <2> HIDE DEF Was, Is
  <2>6. QED
    BY <2>2, <2>4, <2>5 DEF Counted
<1>6. QED
  BY <1>4, <1>5, WalletSteps

\* The initial state.
LEMMA WalletStarts == WalletInit => WalletInv
<1> SUFFICES ASSUME WalletInit PROVE WalletInv
  OBVIOUS
<1>1. /\ balance = Credit /\ ledger = <<>> /\ keyUsed = 0 /\ keyOn = TRUE /\ inflight = 0
      /\ health = [p \in Providers |-> [fails |-> 0, open |-> FALSE]]
      /\ callsMade = 0 /\ walletFaults = 0 /\ tried = <<>> /\ served = {} /\ unbilled = {}
      /\ spend \in [Calls -> Spending] /\ \A c \in Calls : spend[c] = NoCall
  BY NoCallShape DEF WalletInit
<1>2. WalletShape
  <2>1. Credit \in Nat
    BY WalletAssumption
  <2>2. health \in [Providers -> [fails : Nat, open : BOOLEAN]]
    BY <1>1
  <2>3. <<>> \in Seq(Entry) /\ <<>> \in Seq(Seq(Providers)) /\ Len(<<>>) = 0
    OBVIOUS
  <2>4. QED
    BY <1>1, <2>1, <2>2, <2>3 DEF WalletShape
<1>3. \A c \in Calls : Standing(c)
  BY <1>1, NoCallShape DEF Standing
<1>4. Numbers
  BY <1>1, NoCallShape DEF Numbers, Unserved
<1>5. Trying
  BY <1>1, NoCallShape DEF Trying, Unserved, Untried, EveryProviderIsTried, CallAt
<1>6. Charged(<<>>) = 0
  <2>1. <<>> \in Seq(Entry) /\ Len(<<>>) = 0
    OBVIOUS
  <2>2. PICK g \in [0 .. Len(<<>>) -> Int] : g[0] = 0 /\ Charged(<<>>) = g[Len(<<>>)]
    BY <2>1, ChargedRuns
  <2>3. QED
    BY <2>1, <2>2
<1>7. Books
  BY <1>1, <1>6, NoCallShape, WalletAssumption DEF Books, CallAt, Under
<1>8. KeyIsCharged
  <2> DEFINE k == [n \in 0 .. 0 |-> 0]
  <2>1. Len(ledger) = 0 /\ k \in [0 .. 0 -> Nat] /\ k[0] = 0 /\ 1 .. 0 = {}
    BY <1>1
  <2>2. \A c \in Calls : ~CallAt(c, "key")
    BY <1>1, NoCallShape DEF CallAt
  <2> HIDE DEF k
  <2>3. KeyShows(k)
    BY <1>1, <2>1, <2>2 DEF KeyShows
  <2>4. QED
    BY <2>3 DEF KeyIsCharged
<1>9. Counted
  <2>1. BeingServed = {}
    BY <1>1, NoCallShape DEF BeingServed
  <2>2. QED
    BY <1>1, <2>1, FS_EmptySet DEF Counted
<1>10. QED
  BY <1>2, <1>3, <1>4, <1>5, <1>7, <1>8, <1>9 DEF WalletInv

\* The invariant holds in every reachable state.
LEMMA WalletInvariant == WalletSpec => []WalletInv
<1>1. WalletInit => WalletInv
  BY WalletStarts
<1>2. WalletInv /\ [WalletNext]_walletVars => WalletInv'
  BY ShapeKept, StandingKept, NumbersKept, TryingKept, BooksKept, KeyKept, CountedKept DEF WalletInv
<1>3. QED
  BY <1>1, <1>2, PTL DEF WalletSpec

\* The shape of the wallet's state is kept by every step.
THEOREM WalletTypeCorrect == WalletSpec => []WalletShape
<1>1. WalletInv => WalletShape
  BY DEF WalletInv
<1>2. QED
  BY <1>1, WalletInvariant, PTL

\* The service counts as unavailable only when every provider was tried, for
\* any number of providers, calls, faults and trips.
THEOREM WalletTriesEveryProvider == WalletSpec => []EveryProviderIsTried
<1>1. WalletInv => EveryProviderIsTried
  BY DEF WalletInv, Trying
<1>2. QED
  BY <1>1, WalletInvariant, PTL

\* The books agree with what was served, for any prices, credit, number of
\* calls at a time and faults.
THEOREM WalletBilledAsServed == WalletSpec => []BilledAsServed
<1>1. WalletInv => BilledAsServed
  <2> SUFFICES ASSUME WalletInv PROVE BilledAsServed
    OBVIOUS
  <2> DEFINE N == Len(ledger)
  <2>1. ledger \in Seq(Entry) /\ N \in Nat /\ keyUsed \in Nat
    BY DEF WalletInv, WalletShape
  <2>2. PICK g \in [0 .. N -> Int] :
          /\ g[0] = 0 /\ Charged(ledger) = g[N]
          /\ \A n \in 1 .. N : g[n] = g[n - 1] + Price[ledger[n].provider]
    BY <2>1, ChargedRuns
  <2>3. PICK k : /\ k \in [0 .. N -> Nat] /\ k[0] = 0 /\ k[N] = keyUsed
                 /\ \A n \in 1 .. N : k[n] - k[n - 1] \in {0, Price[ledger[n].provider]}
    BY DEF WalletInv, KeyIsCharged, KeyShows
  <2>4. \A n \in 1 .. N : Price[ledger[n].provider] \in Nat
    <3>1. \A n \in 1 .. N : ledger[n] \in Entry
      BY <2>1
    <3>2. \A x \in Entry : Price[x.provider] \in Nat
      BY WalletAssumption DEF Entry, Providers
    <3>3. QED
      BY <3>1, <3>2
  <2> HIDE DEF N
  <2>5. ASSUME NEW n \in 1 .. N PROVE k[n] - k[n - 1] <= g[n] - g[n - 1]
    <3>1. g[n - 1] \in Int /\ Price[ledger[n].provider] \in Nat
      BY <2>1, <2>4
    <3>2. g[n] - g[n - 1] = Price[ledger[n].provider]
      BY <2>2, <3>1
    <3>3. QED
      BY <2>3, <3>1, <3>2
  <2>6. k \in [0 .. N -> Int] /\ k[0] = g[0] /\ N \in 0 .. N
    BY <2>1, <2>2, <2>3
  <2>7. k[N] <= g[N]
    BY <2>1, <2>5, <2>6, SmallerSteps
  <2>8. keyUsed <= Charged(ledger)
    BY <2>2, <2>3, <2>7
  <2>9. QED
    BY <2>8 DEF WalletInv, Books, Counted, BeingServed, BilledAsServed
<1>2. QED
  BY <1>1, WalletInvariant, PTL
==============================================================================
