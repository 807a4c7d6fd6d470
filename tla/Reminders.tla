------------------------------ MODULE Reminders ------------------------------
(***************************************************************************)
(* The life of ONE reminder (src/core/automations/automation_service.ts    *)
(* and its repository): its row of `tasks`, the owner who edits, closes,   *)
(* reopens and deletes it, and the scheduler ticks, on any server, that    *)
(* claim it when it is due and send it.                                    *)
(*                                                                         *)
(* A tick takes up to 25 due reminders at once and sends them one after    *)
(* the other, so long after the claim the row may have changed.  Reminders *)
(* share nothing; one stands for all.                                      *)
(***************************************************************************)
EXTENDS Integers

CONSTANTS
  Ticks,       \* scheduler ticks that may hold the reminder at one time
  Period,      \* distance of two occurrences of a repeating reminder
  MaxTime,     \* how far time goes (bounds the model)
  MaxEdits,    \* how often the owner touches it (bounds the model)
  MaxFaults,   \* how often a query fails or a server dies (bounds the model)
  NoTime       \* remind_at IS NULL

ASSUME ReminderAssumption ==
  /\ Period \in Nat \ {0} /\ MaxTime \in Nat /\ MaxEdits \in Nat
  /\ MaxFaults \in Nat
  /\ NoTime \notin Nat

VARIABLES
  now,        \* the clock
  status,     \* tasks.status; "none" before it is made and after it is deleted
  remind_at,  \* tasks.remind_at
  repeats,    \* tasks.repeat <> 'none'
  pc,         \* progress of each tick with the reminder
  due,        \* due_at, and `repeat`, of the row as the tick claimed it
  again,
  edits,      \* how often the owner touched it
  faults,     \* how often a query failed or a server died
  \* history
  phone,      \* phone[d]: messages sent for the time d
  inbox       \* inbox[d]: alerts added for the time d

row == <<status, remind_at, repeats>>
tick == <<pc, due, again>>
bound == <<edits, faults>>
history == <<phone, inbox>>
vars == <<now, row, tick, bound, history>>

Times == 0 .. MaxTime + Period

Init ==
  /\ now = 0
  /\ status = "none" /\ remind_at = NoTime /\ repeats = FALSE
  /\ pc = [s \in Ticks |-> "idle"]
  /\ due = [s \in Ticks |-> NoTime]
  /\ again = [s \in Ticks |-> FALSE]
  /\ edits = 0 /\ faults = 0
  /\ phone = [d \in Times |-> 0] /\ inbox = [d \in Times |-> 0]

Goto(s, label) == pc' = [pc EXCEPT ![s] = label]
Touch == edits < MaxEdits /\ edits' = edits + 1 /\ UNCHANGED faults
Fault == faults < MaxFaults /\ faults' = faults + 1 /\ UNCHANGED edits

-----------------------------------------------------------------------------
\* taskInput(): a time in the future, or none; a repeating one needs a time.
\* (A time up to a minute ago is taken too: it stands for one just ahead.)
Input ==
  /\ remind_at' \in {t \in Times : t > now} \union {NoTime}
  /\ repeats' \in BOOLEAN
  /\ repeats' => remind_at' # NoTime

CreateTask ==
  /\ status = "none" /\ edits = 0 /\ Touch
  /\ Input
  /\ status' = "open"
  /\ UNCHANGED <<now, tick, history>>

\* updateTask(): every field but the status.
UpdateTask ==
  /\ status # "none" /\ Touch
  /\ Input
  /\ UNCHANGED <<now, status, tick, history>>

\* setTaskStatus(): done, cancelled or open again; the time stays.
SetTaskStatus ==
  /\ status # "none" /\ Touch
  /\ status' \in {"open", "done", "cancelled"}
  /\ UNCHANGED <<now, remind_at, repeats, tick, history>>

DeleteTask ==
  /\ status # "none" /\ Touch
  /\ status' = "none" /\ remind_at' = NoTime /\ repeats' = FALSE
  /\ UNCHANGED <<now, tick, history>>

User == CreateTask \/ UpdateTask \/ SetTaskStatus \/ DeleteTask

-----------------------------------------------------------------------------
\* Faulty variant, for mutation checks: the time is not cleared while sending.
ClaimKeepsTime(s) ==
  /\ pc[s] = "idle" /\ status = "open" /\ remind_at # NoTime /\ remind_at <= now
  /\ due' = [due EXCEPT ![s] = remind_at]
  /\ again' = [again EXCEPT ![s] = repeats]
  /\ Goto(s, "notify")
  /\ UNCHANGED <<now, row, bound, history>>

\* claimDueTasks(): a due reminder is taken by one tick, its time cleared.
Claim(s) ==
  /\ pc[s] = "idle"
  /\ status = "open" /\ remind_at # NoTime /\ remind_at <= now
  /\ due' = [due EXCEPT ![s] = remind_at]
  /\ again' = [again EXCEPT ![s] = repeats]
  /\ remind_at' = NoTime
  /\ Goto(s, "notify")
  /\ UNCHANGED <<now, status, repeats, bound, history>>

\* Faulty variant: a reminder the phone cannot get is given up.
NotifyOrGiveUp(s) ==
  /\ pc[s] = "notify"
  /\ \/ phone' = [phone EXCEPT ![due[s]] = @ + 1] /\ Goto(s, "alert")
     \/ phone' = phone /\ Goto(s, "after")
  /\ UNCHANGED <<now, row, due, again, bound, inbox>>

\* deliver(), the message: it arrives, or there is no phone or no connection.
Notify(s) ==
  /\ pc[s] = "notify"
  /\ phone' \in {phone, [phone EXCEPT ![due[s]] = @ + 1]}
  /\ Goto(s, "alert")
  /\ UNCHANGED <<now, row, due, again, bound, inbox>>

\* deliver(), the inbox of the app.
AddAlert(s) ==
  /\ pc[s] = "alert"
  /\ inbox' = [inbox EXCEPT ![due[s]] = @ + 1]
  /\ Goto(s, "after")
  /\ UNCHANGED <<now, row, due, again, bound, phone>>

\* nextAfter(): the first occurrence that is still to come.
NextAfter(d) == {t \in now + 1 .. now + Period : (t - d) % Period = 0}

Leave(s) ==
  /\ Goto(s, "idle")
  /\ due' = [due EXCEPT ![s] = NoTime]
  /\ again' = [again EXCEPT ![s] = FALSE]

\* Faulty variant: closed reminders are scheduled and closed again.
AfterAnyStatus(s) ==
  /\ pc[s] = "after"
  /\ status # "none"
  /\ IF again[s] THEN remind_at' \in NextAfter(due[s]) /\ UNCHANGED status
     ELSE status' = "done" /\ UNCHANGED remind_at
  /\ Leave(s)
  /\ UNCHANGED <<now, repeats, bound, history>>

\* afterReminder(): the next time, or done -- unless it was closed meanwhile.
After(s) ==
  /\ pc[s] = "after"
  /\ \/ /\ status # "open"
        /\ UNCHANGED row
     \/ /\ status = "open" /\ again[s]
        /\ remind_at' \in NextAfter(due[s])
        /\ UNCHANGED <<status, repeats>>
     \/ /\ status = "open" /\ ~again[s]
        /\ status' = "done"
        /\ UNCHANGED <<remind_at, repeats>>
  /\ Leave(s)
  /\ UNCHANGED <<now, bound, history>>

\* A query of sendReminder() fails: tick() logs it and goes on.
DbError(s) ==
  /\ Fault
  /\ pc[s] \in {"alert", "after"}
  /\ Leave(s)
  /\ UNCHANGED <<now, row, history>>

Crash(s) ==
  /\ Fault
  /\ pc[s] # "idle"
  /\ Leave(s)
  /\ UNCHANGED <<now, row, history>>

Clock ==
  /\ now < MaxTime
  /\ now' = now + 1
  /\ UNCHANGED <<row, tick, bound, history>>

Step(s) == Claim(s) \/ Notify(s) \/ AddAlert(s) \/ After(s)

Next ==
  \/ User \/ Clock
  \/ \E s \in Ticks : Step(s) \/ DbError(s) \/ Crash(s)

Spec == Init /\ [][Next]_vars

\* A tick comes every 30 seconds and works through what it claimed.
Fairness == \A s \in Ticks : WF_vars(Step(s))

FairSpec == Spec /\ Fairness

-----------------------------------------------------------------------------
\* The shape of the state.
TypeOK ==
  /\ now \in 0 .. MaxTime /\ edits \in 0 .. MaxEdits /\ faults \in 0 .. MaxFaults
  /\ status \in {"none", "open", "done", "cancelled"}
  /\ remind_at \in Times \union {NoTime} /\ repeats \in BOOLEAN
  /\ pc \in [Ticks -> {"idle", "notify", "alert", "after"}]
  /\ due \in [Ticks -> Times \union {NoTime}]
  /\ again \in [Ticks -> BOOLEAN]
  /\ phone \in [Times -> Nat] /\ inbox \in [Times -> Nat]

\* "The time is cleared while sending (so it can't go out twice)": whatever
\* ticks overlap, fail, die, and whatever the owner does meanwhile, no time a
\* reminder was given is sent twice.
SentOncePerTime == \A d \in Times : phone[d] <= 1 /\ inbox[d] <= 1

\* A tick that is still sending never touches what the owner closed meanwhile:
\* a closed reminder is reopened, given a time or claimed only by its owner.
ClosedIsLeftAlone ==
  [][(status \in {"done", "cancelled"} /\ ~User) => row' = row]_vars

\* Reminders never come twice for one time, and never touch what is closed.
ReminderSafety == []SentOncePerTime /\ ClosedIsLeftAlone

\* A due reminder of an open task reaches at least the inbox, unless its owner
\* acts first, a query fails or the server sending it dies.  (One given its time
\* while an earlier time is still being sent may be closed with that one.)
DueIsDelivered ==
  \A d \in Times, e \in 0 .. MaxEdits, f \in 0 .. MaxFaults :
    (/\ status = "open" /\ remind_at = d /\ d <= now /\ edits = e /\ faults = f
     /\ \A s \in Ticks : pc[s] = "idle")
      ~> (inbox[d] = 1 \/ edits # e \/ faults # f)
=============================================================================
