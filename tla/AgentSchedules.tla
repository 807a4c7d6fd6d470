--------------------------- MODULE AgentSchedules ---------------------------
(***************************************************************************)
(* Scheduled runs of agents (src/service/agents/agent_scheduler.ts): on    *)
(* every server a tick reads the due schedules and goes through them, one  *)
(* awaited claim at a time, while owners edit them and press "Run now" and *)
(* earlier runs come to their end.                                         *)
(*                                                                         *)
(* The claim moves next_run_at only if nobody else did; which schedules    *)
(* are being run is known only inside each process (`running`).  A tick    *)
(* reads at most ten schedules; there are no more than that here, and the  *)
(* tick of a server has ended when its next one comes, 30 seconds later.   *)
(***************************************************************************)
EXTENDS Integers, FiniteSets

CONSTANTS
  Schedulers,      \* processes whose scheduler is started
  Schedules,    \* agent schedules
  MaxParallel,  \* MAX_PARALLEL
  Period,       \* distance of two slots of a schedule
  MaxTime,      \* how far time goes (bounds the model)
  MaxScheduleEdits,     \* how often schedules are edited (bounds the model)
  MaxManual,    \* how often "Run now" is pressed (bounds the model)
  MaxFaults,    \* how often a server dies or a query fails (bounds the model)
  NoTime, NoSchedule

ASSUME ScheduleAssumption ==
  /\ MaxParallel \in Nat \ {0} /\ Period \in Nat \ {0}
  /\ MaxTime \in Nat /\ MaxScheduleEdits \in Nat /\ MaxManual \in Nat
  /\ MaxFaults \in Nat
  /\ NoTime \notin Nat /\ NoSchedule \notin Schedules

VARIABLES
  now,
  \* the rows of agent_schedules
  next,     \* next_run_at; NULL when the schedule is switched off
  \* each server's scheduler
  running,  \* schedules it is running
  batch,    \* due schedules the tick has still to look at, with their slots
  asking,   \* the schedule whose claim is under way
  moving,   \* the time the claim moves next_run_at to
  going,    \* going[v][s]: runs of s in progress on v
  \* bounds and history
  scheduleEdits, presses, faults,
  ran       \* ran[s][t]: how often the slot t of s was started

scheduler == <<running, batch, asking, moving>>
bound == <<scheduleEdits, presses, faults>>
scheduleVars == <<now, next, scheduler, going, bound, ran>>

Times == 0 .. MaxTime + Period

SchedulesInit ==
  /\ now = 0
  /\ next \in [Schedules -> 1 .. Period]
  /\ running = [v \in Schedulers |-> {}]
  /\ batch = [v \in Schedulers |-> [s \in Schedules |-> NoTime]]
  /\ asking = [v \in Schedulers |-> NoSchedule]
  /\ moving = [v \in Schedulers |-> NoTime]
  /\ going = [v \in Schedulers |-> [s \in Schedules |-> 0]]
  /\ scheduleEdits = 0 /\ presses = 0 /\ faults = 0
  /\ ran = [s \in Schedules |-> [t \in Times |-> 0]]

Due(s) == next[s] # NoTime /\ next[s] <= now

-----------------------------------------------------------------------------
\* computeNextRun(): a slot strictly ahead, at most one period away.
Ahead == now + 1 .. now + Period

\* createSchedule(), updateSchedule(), deleteSchedule(): on with its next slot,
\* or off.
EditSchedule(s) ==
  /\ scheduleEdits < MaxScheduleEdits /\ scheduleEdits' = scheduleEdits + 1
  /\ \E t \in Ahead \union {NoTime} : next' = [next EXCEPT ![s] = t]
  /\ UNCHANGED <<now, scheduler, going, presses, faults, ran>>

Clock ==
  /\ now < MaxTime
  /\ now' = now + 1
  /\ UNCHANGED <<next, scheduler, going, bound, ran>>

-----------------------------------------------------------------------------
Looking(v) == {s \in Schedules : batch[v][s] # NoTime}

\* tick() reads the due schedules.
ReadDue(v) ==
  /\ Looking(v) = {} /\ \E s \in Schedules : Due(s)
  /\ batch' = [batch EXCEPT ![v] =
       [s \in Schedules |-> IF Due(s) THEN next[s] ELSE NoTime]]
  /\ UNCHANGED <<now, next, running, asking, moving, going, bound, ran>>

\* The next one of the batch, the longest due first.
Earliest(v, s) ==
  /\ asking[v] = NoSchedule
  /\ s \in Looking(v)
  /\ \A u \in Looking(v) : batch[v][s] <= batch[v][u]

\* "break": enough runs are in progress; the rest stays due.
TooMany(v) ==
  /\ asking[v] = NoSchedule /\ Looking(v) # {}
  /\ Cardinality(running[v]) >= MaxParallel
  /\ batch' = [batch EXCEPT ![v] = [s \in Schedules |-> NoTime]]
  /\ UNCHANGED <<now, next, running, asking, moving, going, bound, ran>>

\* "continue": this server is running it.
Skip(v, s) ==
  /\ Earliest(v, s) /\ Cardinality(running[v]) < MaxParallel
  /\ s \in running[v]
  /\ batch' = [batch EXCEPT ![v][s] = NoTime]
  /\ UNCHANGED <<now, next, running, asking, moving, going, bound, ran>>

\* Faulty variant: a schedule that is running is not passed over.
AskAlthoughRunning(v, s) ==
  /\ Earliest(v, s) /\ Cardinality(running[v]) < MaxParallel
  /\ asking' = [asking EXCEPT ![v] = s]
  /\ \E t \in Ahead : moving' = [moving EXCEPT ![v] = t]
  /\ UNCHANGED <<now, next, running, batch, going, bound, ran>>

\* The next slot is worked out and the claim sent; its answer is awaited.
Ask(v, s) ==
  /\ Earliest(v, s) /\ Cardinality(running[v]) < MaxParallel
  /\ s \notin running[v]
  /\ asking' = [asking EXCEPT ![v] = s]
  /\ \E t \in Ahead : moving' = [moving EXCEPT ![v] = t]
  /\ UNCHANGED <<now, next, running, batch, going, bound, ran>>

\* run() begins, up to its first await.
Begin(v, s) ==
  /\ running' = [running EXCEPT ![v] = @ \union {s}]
  /\ going' = [going EXCEPT ![v][s] = @ + 1]

Answered(v, s) ==
  /\ asking[v] = s /\ s # NoSchedule
  /\ asking' = [asking EXCEPT ![v] = NoSchedule]
  /\ moving' = [moving EXCEPT ![v] = NoTime]
  /\ batch' = [batch EXCEPT ![v][s] = NoTime]

\* Faulty variant: next_run_at is moved whatever it is by now.
ClaimScheduleBlindly(v, s) ==
  /\ Answered(v, s)
  /\ next' = [next EXCEPT ![s] = moving[v]]
  /\ ran' = [ran EXCEPT ![s][batch[v][s]] = @ + 1]
  /\ Begin(v, s)
  /\ UNCHANGED <<now, bound>>

\* claimSchedule(): whoever moves next_run_at from the slot it read runs it.
ClaimSchedule(v, s) ==
  /\ Answered(v, s)
  /\ \/ /\ next[s] = batch[v][s]
        /\ next' = [next EXCEPT ![s] = moving[v]]
        /\ ran' = [ran EXCEPT ![s][next[s]] = @ + 1]
        /\ Begin(v, s)
     \/ /\ next[s] # batch[v][s]
        /\ UNCHANGED <<next, ran, running, going>>
  /\ UNCHANGED <<now, bound>>

\* runNow(): refused while this server runs the schedule.
RunNow(v, s) ==
  /\ presses < MaxManual /\ presses' = presses + 1
  /\ s \notin running[v]
  /\ Begin(v, s)
  /\ UNCHANGED <<now, next, batch, asking, moving, scheduleEdits, faults, ran>>

\* Faulty variant: only a run that succeeds leaves the set.
EndRunLeavesEntry(v, s) ==
  /\ going[v][s] > 0 /\ going' = [going EXCEPT ![v][s] = @ - 1]
  /\ \/ running' = [running EXCEPT ![v] = @ \ {s}]
     \/ UNCHANGED running
  /\ UNCHANGED <<now, next, batch, asking, moving, bound, ran>>

\* run() ends, well or badly: its agent is gone, the model answered or took too
\* long, a query or a delivery failed.  The schedule leaves the set either way.
ScheduledRunEnds(v, s) ==
  /\ going[v][s] > 0 /\ going' = [going EXCEPT ![v][s] = @ - 1]
  /\ running' = [running EXCEPT ![v] = @ \ {s}]
  /\ UNCHANGED <<now, next, batch, asking, moving, bound, ran>>

\* The tick is over early; a claim under way has been carried out, or not.
Abandon(v) ==
  /\ faults < MaxFaults /\ faults' = faults + 1
  /\ batch' = [batch EXCEPT ![v] = [s \in Schedules |-> NoTime]]
  /\ asking' = [asking EXCEPT ![v] = NoSchedule]
  /\ moving' = [moving EXCEPT ![v] = NoTime]
  /\ \/ UNCHANGED next
     \/ \E s \in Schedules :
          /\ asking[v] = s /\ next[s] = batch[v][s]
          /\ next' = [next EXCEPT ![s] = moving[v]]

\* The query of a claim fails, or its answer is lost.
ClaimFails(v) ==
  /\ asking[v] # NoSchedule
  /\ Abandon(v)
  /\ UNCHANGED <<now, running, going, scheduleEdits, presses, ran>>

\* A server dies with its tick and its runs; their slots have passed.
ServerDies(v) ==
  /\ Looking(v) # {} \/ \E s \in Schedules : going[v][s] > 0
  /\ Abandon(v)
  /\ running' = [running EXCEPT ![v] = {}]
  /\ going' = [going EXCEPT ![v] = [s \in Schedules |-> 0]]
  /\ UNCHANGED <<now, scheduleEdits, presses, ran>>

Tick(v) ==
  \/ ReadDue(v) \/ TooMany(v)
  \/ \E s \in Schedules : Skip(v, s) \/ Ask(v, s) \/ ClaimSchedule(v, s)

SchedulesNext ==
  \/ Clock
  \/ \E s \in Schedules : EditSchedule(s)
  \/ \E v \in Schedulers : Tick(v) \/ ClaimFails(v) \/ ServerDies(v)
  \/ \E v \in Schedulers, s \in Schedules : RunNow(v, s) \/ ScheduledRunEnds(v, s)

SchedulesSpec == SchedulesInit /\ [][SchedulesNext]_scheduleVars

\* A tick comes every 30 seconds, and every run ends within its timeout.
SchedulesFairness ==
  /\ \A v \in Schedulers : WF_scheduleVars(Tick(v))
  /\ \A v \in Schedulers, s \in Schedules : WF_scheduleVars(ScheduledRunEnds(v, s))

FairSchedules == SchedulesSpec /\ SchedulesFairness

-----------------------------------------------------------------------------
\* The shape of the state.
SchedulesTypeOK ==
  /\ now \in 0 .. MaxTime
  /\ next \in [Schedules -> Times \union {NoTime}]
  /\ running \in [Schedulers -> SUBSET Schedules]
  /\ batch \in [Schedulers -> [Schedules -> Times \union {NoTime}]]
  /\ asking \in [Schedulers -> Schedules \union {NoSchedule}]
  /\ moving \in [Schedulers -> Times \union {NoTime}]
  /\ going \in [Schedulers -> [Schedules -> Nat]]
  /\ scheduleEdits \in 0 .. MaxScheduleEdits /\ presses \in 0 .. MaxManual
  /\ faults \in 0 .. MaxFaults
  /\ ran \in [Schedules -> [Times -> Nat]]

\* "Safe on several servers (each slot is claimed atomically)": no slot is
\* started twice, whatever ticks overlap and whatever is edited meanwhile.
OneRunPerSlot == \A s \in Schedules, t \in Times : ran[s][t] <= 1

\* As long as nobody presses "Run now", a server has at most MAX_PARALLEL runs
\* in progress, never two of the same schedule, and `running` names them all:
\* an entry that outlived its run would keep the schedule from ever running.
RunningIsExact ==
  presses = 0 =>
    \A v \in Schedulers :
      /\ Cardinality(running[v]) <= MaxParallel
      /\ \A s \in Schedules : going[v][s] = IF s \in running[v] THEN 1 ELSE 0

\* However ticks, presses, scheduleEdits and deaths interleave: no slot twice, and
\* nothing running that is not known to run.
ScheduleSafety == OneRunPerSlot /\ RunningIsExact

\* Due schedules are worked off again and again, also when more of them are due
\* than may run at once, some are still running, and servers die.
BacklogIsWorkedOff == []<>(\A s \in Schedules : ~Due(s))
=============================================================================
