---------------------------- MODULE Subscriptions ----------------------------
(***************************************************************************)
(* The plan a user is on (src/service/billing/billing_service.ts,          *)
(* repository/billing_repository.ts).  Razorpay (external) keeps the       *)
(* subscription and announces each change by an event with a snapshot of   *)
(* it; the row here is written by the checkout callback and by the         *)
(* webhook, each await a step, in whatever order they arrive.              *)
(*                                                                         *)
(* One user; the subscriptions 1, 2, .. are in the order of their checkout. *)
(***************************************************************************)
EXTENDS Integers, FiniteSets, Sequences, SequencesExt

CONSTANTS
  Subs,           \* number of subscriptions
  BillingJobs,    \* requests served at one time
  MaxSnapshots,   \* changes of subscriptions at Razorpay (bounds the model)
  MaxBillingFaults

ASSUME SubscriptionAssumption ==
  Subs \in Nat \ {0} /\ MaxSnapshots \in Nat \ {0} /\ MaxBillingFaults \in Nat

Ids == 1 .. Subs
Entitled == {"active", "authenticated", "pending"}
NoRow == [status |-> "none", cancels |-> FALSE]
NoBillingJob == [op |-> "none", at |-> "idle", sub |-> 0, snap |-> 0]

VARIABLES
  remote,     \* Razorpay: the snapshots of each subscription, oldest first
  cancelling, \* Razorpay: subscriptions that end with their period
  over,       \* subscriptions whose paid period has ended
  answered,   \* events answered with success, <<subscription, snapshot>>
  row,        \* billing_subscriptions
  events,     \* billing_events
  call,       \* each request: [op, at, sub, snap]
  billingFaults,
  \* history
  newest,     \* the newest snapshot each row has been written from
  troubled    \* an older snapshot was written over a newer one, or an event lost:
              \* its handler died, or a resend was answered before it gave it back

billingVars == <<remote, cancelling, over, answered, row, events, call,
                 billingFaults, newest, troubled>>

BillingInit ==
  /\ remote = [s \in Ids |-> <<>>] /\ cancelling = {} /\ over = {} /\ answered = {}
  /\ row = [s \in Ids |-> NoRow] /\ events = {}
  /\ call = [j \in BillingJobs |-> NoBillingJob] /\ billingFaults = 0
  /\ newest = [s \in Ids |-> 0] /\ troubled = {}

\* currentSubscription(): the newest that is entitled, or has ended here but
\* is paid to the end of its period; 0 is the free plan.
Grants(s) ==
  \/ row[s].status \in Entitled
  \/ row[s].status \in {"cancelled", "completed"} /\ s \notin over /\ newest[s] > 1
CurrentSubscription ==
  IF \E s \in Ids : Grants(s) THEN CHOOSE s \in Ids : Grants(s) /\ \A t \in Ids : Grants(t) => t <= s
  ELSE 0

BillingStep(j, op, place) == call[j].op = op /\ call[j].at = place
Proceed(j, place, snap) == call' = [call EXCEPT ![j] = [@ EXCEPT !.at = place, !.snap = snap]]
Begin(j, op, s, snap) ==
  /\ call[j].op = "none"
  /\ call' = [call EXCEPT ![j] = [op |-> op, at |-> "begin", sub |-> s, snap |-> snap]]
EndJob(j) == call' = [call EXCEPT ![j] = NoBillingJob]

-----------------------------------------------------------------------------
\* Razorpay.
Status(s) == Last(remote[s])
Change(s, status) == remote' = [remote EXCEPT ![s] = Append(@, status)]

Snapshots == FoldFunction(LAMBDA snaps, n : Len(snaps) + n, 0, remote)

RazorpayMoves(s) ==
  /\ remote[s] # <<>> /\ Snapshots < MaxSnapshots
  /\ \/ Status(s) = "created" /\ Change(s, "authenticated") /\ UNCHANGED over
     \/ Status(s) \in {"authenticated", "pending"} /\ Change(s, "active") /\ UNCHANGED over
     \/ Status(s) = "active" /\ s \notin cancelling /\ Change(s, "pending") /\ UNCHANGED over
     \/ Status(s) = "pending" /\ Change(s, "halted") /\ over' = over \union {s}
     \/ Status(s) = "active" /\ s \in cancelling /\ Change(s, "cancelled") /\ over' = over \union {s}
  /\ UNCHANGED <<cancelling, answered, row, events, call, billingFaults, newest, troubled>>

-----------------------------------------------------------------------------
\* updateSubscription(), from a snapshot of Razorpay; no row, no change.
\* Faulty variant, for mutation checks: the status is kept.
WriteFlagsOnly(s, snap, cancels) ==
  /\ row' = IF row[s] = NoRow THEN row ELSE [row EXCEPT ![s].cancels = @ \/ cancels]
  /\ newest' = IF row[s] = NoRow \/ snap <= newest[s] THEN newest ELSE [newest EXCEPT ![s] = snap]
  /\ troubled' = IF row[s] # NoRow /\ snap < newest[s] THEN troubled \union {s} ELSE troubled

UpdateSubscription(s, snap, cancels) ==
  /\ row' = IF row[s] = NoRow THEN row
            ELSE [row EXCEPT ![s] = [status |-> remote[s][snap], cancels |-> @.cancels \/ cancels]]
  /\ newest' = IF row[s] = NoRow \/ snap <= newest[s] THEN newest ELSE [newest EXCEPT ![s] = snap]
  /\ troubled' = IF row[s] # NoRow /\ snap < newest[s] THEN troubled \union {s} ELSE troubled

\* insertSubscription(): ON CONFLICT DO NOTHING.
InsertSubscription(s, status, snap) ==
  /\ row' = IF row[s] = NoRow THEN [row EXCEPT ![s] = [status |-> status, cancels |-> FALSE]] ELSE row
  /\ newest' = IF row[s] = NoRow THEN [newest EXCEPT ![s] = snap] ELSE newest

\* subscribe(): a user on a plan that is not cancelled is refused; then the
\* subscription is made at Razorpay, and then the row.
Subscribe(j, s) ==
  LET current == CurrentSubscription IN
  /\ remote[s] = <<>> /\ (s > 1 => remote[s - 1] # <<>>)
  /\ \A i \in BillingJobs : call[i].op = "subscribe" => call[i].sub # s
  /\ current # 0 => row[current].cancels \/ row[current].status = "cancelled"
  /\ Begin(j, "subscribe", s, 0)
  /\ UNCHANGED <<remote, cancelling, over, answered, row, events, billingFaults, newest, troubled>>

CreateAtRazorpay(j) ==
  /\ BillingStep(j, "subscribe", "begin") /\ Proceed(j, "insert", 1)
  /\ Change(call[j].sub, "created")
  /\ UNCHANGED <<cancelling, over, answered, row, events, billingFaults, newest, troubled>>

InsertCreated(j) ==
  /\ BillingStep(j, "subscribe", "insert") /\ EndJob(j)
  /\ InsertSubscription(call[j].sub, "created", 1)
  /\ UNCHANGED <<remote, cancelling, over, answered, events, billingFaults, troubled>>

\* verifyCheckout(), the callback of a payment the user has made: Razorpay's
\* state is fetched, "authenticated" if that fails, and written.
VerifyCheckout(j, s) ==
  /\ row[s] # NoRow /\ Len(remote[s]) > 1 /\ Begin(j, "verify", s, 0)
  /\ UNCHANGED <<remote, cancelling, over, answered, row, events, billingFaults, newest, troubled>>

FetchSubscription(j) ==
  /\ BillingStep(j, "verify", "begin")
  /\ \/ Proceed(j, "update", Len(remote[call[j].sub])) /\ UNCHANGED billingFaults
     \/ /\ billingFaults < MaxBillingFaults /\ billingFaults' = billingFaults + 1
        /\ Proceed(j, "update", 2)
  /\ UNCHANGED <<remote, cancelling, over, answered, row, events, newest, troubled>>

\* cancel(): at Razorpay, to the end of the period; then the row.
Cancel(j, s) ==
  /\ s = CurrentSubscription /\ ~row[s].cancels /\ Begin(j, "cancel", s, 0)
  /\ UNCHANGED <<remote, cancelling, over, answered, row, events, billingFaults, newest, troubled>>

CancelAtRazorpay(j) ==
  LET s == call[j].sub IN
  /\ BillingStep(j, "cancel", "begin")
  /\ IF Status(s) = "active"
     THEN cancelling' = cancelling \union {s} /\ Proceed(j, "update", Len(remote[s]))
     ELSE EndJob(j) /\ UNCHANGED cancelling
  /\ UNCHANGED <<remote, over, answered, row, events, billingFaults, newest, troubled>>

WriteRow(j) ==
  /\ call[j].op \in {"verify", "cancel"} /\ call[j].at = "update" /\ EndJob(j)
  /\ UpdateSubscription(call[j].sub, call[j].snap, call[j].op = "cancel")
  /\ UNCHANGED <<remote, cancelling, over, answered, events, billingFaults>>

-----------------------------------------------------------------------------
\* handleWebhook(): the event is claimed; Razorpay sends it until it is
\* answered, and perhaps again.
SubscriptionEvent(j, s, snap) ==
  /\ snap \in 2 .. Len(remote[s])
  /\ Begin(j, "webhook", s, snap)
  /\ UNCHANGED <<remote, cancelling, over, answered, row, events, billingFaults, newest, troubled>>

ClaimEvent(j) ==
  LET ev == <<call[j].sub, call[j].snap>> IN
  /\ BillingStep(j, "webhook", "begin")
  /\ IF ev \in events THEN answered' = answered \union {ev} /\ EndJob(j) /\ UNCHANGED events
     ELSE events' = events \union {ev} /\ Proceed(j, "adopt", ev[2]) /\ UNCHANGED answered
  /\ UNCHANGED <<remote, cancelling, over, row, billingFaults, newest, troubled>>

\* A subscription there is no row of yet is adopted.
Adopt(j) ==
  /\ BillingStep(j, "webhook", "adopt") /\ Proceed(j, "update", call[j].snap)
  /\ InsertSubscription(call[j].sub, remote[call[j].sub][call[j].snap], call[j].snap)
  /\ UNCHANGED <<remote, cancelling, over, answered, events, billingFaults, troubled>>

WriteFromEvent(j) ==
  LET s == call[j].sub snap == call[j].snap IN
  /\ BillingStep(j, "webhook", "update") /\ EndJob(j)
  /\ UpdateSubscription(s, snap, remote[s][snap] = "cancelled")
  /\ answered' = answered \union {<<s, snap>>}
  /\ UNCHANGED <<remote, cancelling, over, events, billingFaults>>

\* A query fails: the event is given back, to be sent again.
ReleaseEvent(j) ==
  /\ call[j].op = "webhook" /\ call[j].at \in {"adopt", "update"} /\ EndJob(j)
  /\ billingFaults < MaxBillingFaults /\ billingFaults' = billingFaults + 1
  /\ events' = events \ {<<call[j].sub, call[j].snap>>}
  /\ troubled' = IF <<call[j].sub, call[j].snap>> \in answered
                 THEN troubled \union {call[j].sub} ELSE troubled
  /\ UNCHANGED <<remote, cancelling, over, answered, row, newest>>

\* The server dies, or a query of another request fails: what the request had
\* done stays, a claimed event included.
Abort(j) ==
  /\ call[j].op # "none" /\ EndJob(j)
  /\ billingFaults < MaxBillingFaults /\ billingFaults' = billingFaults + 1
  /\ troubled' = IF call[j].op = "webhook" /\ call[j].at # "begin"
                 THEN troubled \union {call[j].sub} ELSE troubled
  /\ UNCHANGED <<remote, cancelling, over, answered, row, events, newest>>

\* expireStaleCreated(): checkouts nobody paid within the hour, as far as the
\* row knows.
ExpireStaleCreated(s) ==
  /\ row[s].status = "created" /\ row' = [row EXCEPT ![s].status = "abandoned"]
  /\ UNCHANGED <<remote, cancelling, over, answered, events, call, billingFaults, newest, troubled>>

BillingNext ==
  \/ \E s \in Ids : RazorpayMoves(s) \/ ExpireStaleCreated(s)
  \/ \E j \in BillingJobs, s \in Ids :
       \/ Subscribe(j, s) \/ VerifyCheckout(j, s) \/ Cancel(j, s)
       \/ \E snap \in 2 .. MaxSnapshots : SubscriptionEvent(j, s, snap)
  \/ \E j \in BillingJobs :
       \/ CreateAtRazorpay(j) \/ InsertCreated(j) \/ FetchSubscription(j) \/ CancelAtRazorpay(j)
       \/ WriteRow(j) \/ ClaimEvent(j) \/ Adopt(j) \/ WriteFromEvent(j)
       \/ ReleaseEvent(j) \/ Abort(j)

BillingSpec == BillingInit /\ [][BillingNext]_billingVars

-----------------------------------------------------------------------------
\* A plan is granted only by a subscription the user has paid for; and when
\* all events of a subscription are answered and none was lost or overtaken,
\* the row says what Razorpay says.
AtRest(s) ==
  /\ \A snap \in 2 .. Len(remote[s]) : <<s, snap>> \in answered
  /\ \A j \in BillingJobs : call[j].sub # s
RowFollowsRazorpay ==
  /\ CurrentSubscription # 0 => Len(remote[CurrentSubscription]) > 1
  /\ \A s \in Ids : AtRest(s) /\ s \notin troubled /\ Len(remote[s]) > 1
                      => row[s].status = Status(s)

\* What subscribe() tells a user who wants another plan: "Cancel it first to
\* switch plans -- the change applies when the current period ends."
SwitchWaitsForTheEnd ==
  \A s \in cancelling : Grants(s) /\ s \notin over => CurrentSubscription <= s
=============================================================================
