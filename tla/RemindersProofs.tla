--------------------------- MODULE RemindersProofs ---------------------------
(***************************************************************************)
(* Proofs about Reminders for every number of ticks, edits, failures and   *)
(* crashes, every period and every span of time.                           *)
(***************************************************************************)
EXTENDS Reminders, TLAPS

(***************************************************************************)
(* The invariant: a time is in the row, or with one tick, or past; it has  *)
(* not been sent while it is in the row, nothing ahead has been sent, and  *)
(* what a tick has yet to send it has not sent.                            *)
(***************************************************************************)
SendInv ==
  /\ \A s \in Ticks :
       /\ pc[s] = "idle" <=> due[s] = NoTime
       /\ pc[s] # "idle" => due[s] <= now
       /\ pc[s] = "notify" => phone[due[s]] = 0
       /\ pc[s] \in {"notify", "alert"} => inbox[due[s]] = 0
       /\ remind_at # NoTime => due[s] # remind_at
  /\ \A s, t \in Ticks : pc[s] # "idle" /\ due[s] = due[t] => s = t
  /\ remind_at # NoTime => phone[remind_at] = 0 /\ inbox[remind_at] = 0
  /\ \A d \in Times : d > now => phone[d] = 0 /\ inbox[d] = 0
  /\ SentOncePerTime

LEMMA TimesAre ==
  /\ \A t : t \in Times <=> t \in Nat /\ t <= MaxTime + Period
  /\ NoTime \notin Times
  /\ MaxTime \in Nat /\ Period \in Nat /\ MaxEdits \in Nat /\ MaxFaults \in Nat
  /\ Period > 0
BY ReminderAssumption DEF Times

\* nextAfter() answers a time ahead, at most one period away.
LEMMA NextIsAhead ==
  ASSUME TypeOK, NEW d \in Times, NEW t \in NextAfter(d)
  PROVE  t \in Times /\ t > now
BY ReminderAssumption DEF TypeOK, Times, NextAfter

LEMMA ReminderInit == Init => TypeOK /\ SendInv
<1> SUFFICES ASSUME Init PROVE TypeOK /\ SendInv
  OBVIOUS
<1> USE TimesAre DEF Init
<1>1. TypeOK
  <2>1. now \in 0 .. MaxTime /\ edits \in 0 .. MaxEdits /\ faults \in 0 .. MaxFaults
    OBVIOUS
  <2>2. phone \in [Times -> Nat] /\ inbox \in [Times -> Nat]
    OBVIOUS
  <2>3. QED
    BY <2>1, <2>2 DEF TypeOK
<1>2. SendInv
  BY DEF SendInv, SentOncePerTime
<1>3. QED
  BY <1>1, <1>2

\* Every step keeps the shape of the state.
LEMMA ReminderType == TypeOK /\ SendInv /\ [Next]_vars => TypeOK'
<1> SUFFICES ASSUME TypeOK, SendInv, [Next]_vars PROVE TypeOK'
  OBVIOUS
<1> USE TimesAre DEF TypeOK, row, tick, bound, history, Goto, Touch, Fault
<1>1. CASE CreateTask
  BY <1>1 DEF CreateTask, Input
<1>2. CASE UpdateTask
  BY <1>2 DEF UpdateTask, Input
<1>3. CASE SetTaskStatus
  BY <1>3 DEF SetTaskStatus
<1>4. CASE DeleteTask
  <2>1. edits' \in 0 .. MaxEdits
    BY <1>4 DEF DeleteTask
  <2>2. QED
    BY <1>4, <2>1 DEF DeleteTask
<1>5. CASE Clock
  BY <1>5 DEF Clock
<1>6. ASSUME NEW s \in Ticks, Claim(s) PROVE TypeOK'
  BY <1>6 DEF Claim
<1>7. ASSUME NEW s \in Ticks, Notify(s) PROVE TypeOK'
  BY <1>7 DEF Notify, SendInv
<1>8. ASSUME NEW s \in Ticks, AddAlert(s) PROVE TypeOK'
  BY <1>8 DEF AddAlert, SendInv
<1>9. ASSUME NEW s \in Ticks, After(s) PROVE TypeOK'
  <2>1. due[s] \in Times /\ due[s] <= now
    BY <1>9 DEF After, SendInv
  <2>2. \A t \in NextAfter(due[s]) : t \in Times
    BY <2>1, NextIsAhead
  <2>3. QED
    BY <1>9, <2>2 DEF After, Leave
<1>10. ASSUME NEW s \in Ticks, DbError(s) \/ Crash(s) PROVE TypeOK'
  <2>1. faults' \in 0 .. MaxFaults
    BY <1>10 DEF DbError, Crash
  <2>2. pc' \in [Ticks -> {"idle", "notify", "alert", "after"}]
        /\ due' \in [Ticks -> Times \union {NoTime}] /\ again' \in [Ticks -> BOOLEAN]
    BY <1>10 DEF DbError, Crash, Leave
  <2>3. QED
    BY <1>10, <2>1, <2>2 DEF DbError, Crash
<1>11. CASE UNCHANGED vars
  BY <1>11 DEF vars
<1>12. QED
  BY <1>1, <1>2, <1>3, <1>4, <1>5, <1>6, <1>7, <1>8, <1>9, <1>10, <1>11
  DEF Next, Step, User

\* Every step keeps the invariant.
LEMMA ReminderStep == TypeOK /\ SendInv /\ [Next]_vars => SendInv'
<1> SUFFICES ASSUME TypeOK, SendInv, [Next]_vars PROVE SendInv'
  OBVIOUS
<1> USE TimesAre
    DEF TypeOK, SendInv, SentOncePerTime, row, tick, bound, history, Goto, Touch,
        Fault
<1>1. CASE CreateTask
  BY <1>1 DEF CreateTask, Input
<1>2. CASE UpdateTask
  BY <1>2 DEF UpdateTask, Input
<1>3. CASE SetTaskStatus
  BY <1>3 DEF SetTaskStatus
<1>4. CASE DeleteTask
  BY <1>4 DEF DeleteTask
<1>5. CASE Clock
  BY <1>5 DEF Clock
<1>6. ASSUME NEW s \in Ticks, Claim(s) PROVE SendInv'
  BY <1>6 DEF Claim
<1>7. ASSUME NEW s \in Ticks, Notify(s) PROVE SendInv'
  BY <1>7 DEF Notify
<1>8. ASSUME NEW s \in Ticks, AddAlert(s) PROVE SendInv'
  BY <1>8 DEF AddAlert
<1>9. ASSUME NEW s \in Ticks, After(s) PROVE SendInv'
  <2>1. due[s] \in Times /\ due[s] <= now
    BY <1>9 DEF After
  <2>2. \A t \in NextAfter(due[s]) : t \in Times /\ t > now
    BY <2>1, NextIsAhead
  <2>3. CASE remind_at' \in NextAfter(due[s]) /\ UNCHANGED <<status, repeats>>
    BY <1>9, <2>1, <2>2, <2>3 DEF After, Leave
  <2>4. CASE UNCHANGED remind_at
    BY <1>9, <2>1, <2>4 DEF After, Leave
  <2>5. QED
    BY <1>9, <2>3, <2>4 DEF After
<1>10. ASSUME NEW s \in Ticks, DbError(s) \/ Crash(s) PROVE SendInv'
  BY <1>10 DEF DbError, Crash, Leave
<1>11. CASE UNCHANGED vars
  BY <1>11 DEF vars
<1>12. QED
  BY <1>1, <1>2, <1>3, <1>4, <1>5, <1>6, <1>7, <1>8, <1>9, <1>10, <1>11
  DEF Next, Step, User

\* The shape of a reminder's state is kept by owner, clock and every tick.
THEOREM ReminderTypeCorrect == Spec => []TypeOK
<1>1. Init => TypeOK /\ SendInv
  BY ReminderInit
<1>2. TypeOK /\ SendInv /\ [Next]_vars => TypeOK' /\ SendInv'
  BY ReminderType, ReminderStep
<1>3. QED
  BY <1>1, <1>2, PTL DEF Spec

\* No time a reminder was given is sent twice, whatever overlaps, fails or dies.
THEOREM ReminderSentOncePerTime == Spec => []SentOncePerTime
<1>1. Init => TypeOK /\ SendInv
  BY ReminderInit
<1>2. TypeOK /\ SendInv /\ [Next]_vars => TypeOK' /\ SendInv'
  BY ReminderType, ReminderStep
<1>3. SendInv => SentOncePerTime
  BY DEF SendInv
<1>4. QED
  BY <1>1, <1>2, <1>3, PTL DEF Spec

\* The scheduler leaves a reminder its owner closed as it is.
THEOREM ReminderClosedIsLeftAlone == Spec => ClosedIsLeftAlone
<1>1. ASSUME [Next]_vars
      PROVE [(status \in {"done", "cancelled"} /\ ~User) => row' = row]_vars
  BY <1>1 DEF Next, Step, Clock, Claim, Notify, AddAlert, After, DbError, Crash,
     vars, row
<1>2. QED
  BY <1>1, PTL DEF Spec, ClosedIsLeftAlone

\* No time is sent twice, and what its owner closed is left alone.
THEOREM ReminderIsSafe == Spec => ReminderSafety
  BY ReminderSentOncePerTime, ReminderClosedIsLeftAlone, PTL DEF ReminderSafety
=============================================================================
