-------------------------- MODULE ChatTurnsProofs --------------------------
(***************************************************************************)
(* Proofs about ChatTurns for any number of turns, routes, tools, limits,  *)
(* faults and crashes.  What a step may disturb is said turn by turn:      *)
(* TurnFits is the inductive invariant of one turn, and a step changes     *)
(* nothing of the other turns (OnlyTurn), but for a crash, which leaves of *)
(* a live turn what one that has not begun has (Blank).  HistInv is the    *)
(* inductive invariant of what is stored, summed up, read and sent: the    *)
(* chat only grows, so what was true of a part of it stays true.           *)
(***************************************************************************)
EXTENDS ChatTurns, SequenceFacts


-----------------------------------------------------------------------------
(***************************************************************************)
(* The guard of the tool loop.                                             *)
(***************************************************************************)

\* What recording results may make of a guard: it halts in the round it is in.
Recordings(g) ==
  {h \in Guards :
     /\ h.rounds = g.rounds /\ h.wrapped = g.wrapped
     /\ h.stopped = g.stopped \/ (g.stopped = 0 /\ h.stopped = g.rounds + 1)}

\* The limits are numbers.
LEMMA Limits == {MaxParallel, MaxRounds, MaxStreak, MaxSame, MaxFaults, MaxCrashes} \subseteq Nat /\ MaxRounds > 0 /\ MaxParallel > 0
BY TurnAssumption

\* Halting keeps the first reason.
LEMMA Halted ==
  ASSUME NEW g \in Guards
  PROVE  /\ Halt(g) \in Guards /\ Halt(g).rounds = g.rounds /\ Halt(g).wrapped = g.wrapped
         /\ Halt(g).stopped = IF g.stopped = 0 THEN g.rounds + 1 ELSE g.stopped
BY DEF Guards, Halt

\* One result.
LEMMA RecordOne ==
  ASSUME NEW g \in Guards, NEW h \in Recordings(g), NEW c \in Calls
  PROVE  Record(h, c) \in Recordings(g)
<1>1. h \in Guards /\ c.tool \in Tools
  BY DEF Recordings, Calls
<1>2. [h EXCEPT !.streak = 0] \in Recordings(g)
  BY DEF Recordings, Guards
<1> DEFINE next == [h EXCEPT !.streak = @ + 1, !.failed[c.tool] = @ + 1]
<1>3. next \in Guards /\ next.rounds = h.rounds /\ next.wrapped = h.wrapped /\ next.stopped = h.stopped
  <2>1. h.failed \in [Tools -> Nat] /\ h.streak \in Nat
    BY <1>1 DEF Guards
  <2>2. [h.failed EXCEPT ![c.tool] = @ + 1] \in [Tools -> Nat] /\ h.streak + 1 \in Nat
    BY <1>1, <2>1
  <2>3. next = [h EXCEPT !.streak = h.streak + 1, !.failed = [h.failed EXCEPT ![c.tool] = @ + 1]]
    BY <1>1 DEF Guards
  <2> HIDE DEF next
  <2>4. QED
    BY <1>1, <2>2, <2>3 DEF Guards
<1>4. next \in Recordings(g)
  BY <1>3 DEF Recordings
<1>5. Halt(next) \in Recordings(g)
  <2> HIDE DEF next
  <2>1. QED
    BY <1>3, <1>4, Halted DEF Recordings, Guards
<1>6. QED
  BY <1>2, <1>4, <1>5 DEF Record

\* All results.
LEMMA RecordEach ==
  ASSUME NEW g \in Guards, NEW results \in Seq(Calls)
  PROVE  RecordAll(g, results) \in Recordings(g)
<1> DEFINE N == Len(results)
           V == Recordings(g)
           step == [x \in V \X (1 .. N) |-> Record(x[1], results[x[2]])]
           run[n \in 0 .. N] == IF n = 0 THEN g ELSE Record(run[n - 1], results[n])
<1>1. N \in Nat /\ g \in V /\ \A n \in 1 .. N : results[n] \in Calls
  BY DEF Recordings
<1>2. step \in [V \X (1 .. N) -> V]
  BY <1>1, RecordOne
<1>3. PICK f : IsRun(f, V, g, N, step)
  <2> HIDE DEF N, step, V
  <2>1. QED
    BY <1>1, <1>2, RunningFunction, Zenon
<1> f \in [0 .. N -> V] /\ f[0] = g
  BY <1>3 DEF IsRun
<1>4. ASSUME NEW n \in 1 .. N PROVE f[n] = Record(f[n - 1], results[n])
  <2>0. n - 1 \in 0 .. N
    BY <1>1
  <2>1. f[n] = step[<<f[n - 1], n>>]
    <3> HIDE DEF step, V, N
    <3>1. QED
      BY <1>3 DEF IsRun
  <2>2. f[n - 1] \in V
    BY <2>0
  <2> HIDE DEF V, N
  <2>3. <<f[n - 1], n>> \in V \X (1 .. N)
    BY <2>2
  <2>4. QED
    BY <2>1, <2>3
<1> HIDE DEF step, V
<1>5. f = [n \in 0 .. N |-> IF n = 0 THEN g ELSE Record(f[n - 1], results[n])]
  BY <1>1, <1>4
<1>6. run = [n \in 0 .. N |-> IF n = 0 THEN g ELSE Record(run[n - 1], results[n])]
  <2> HIDE DEF N
  <2>1. QED
    BY <1>5, Zenon
<1>7. RecordAll(g, results) = run[N]
  BY Zenon DEF RecordAll
<1> HIDE DEF run, N
<1> DEFINE T == {n \in Nat : n <= N => run[n] = f[n]}
<1>8. Nat \subseteq T
  <2>1. 0 \in T
    BY <1>1, <1>6
  <2>2. ASSUME NEW n \in Nat, n \in T PROVE n + 1 \in T
    <3> SUFFICES ASSUME n + 1 <= N PROVE run[n + 1] = f[n + 1]
      OBVIOUS
    <3>1. n + 1 \in 1 .. N /\ n + 1 \in 0 .. N /\ n + 1 # 0 /\ n + 1 - 1 = n /\ n <= N
      BY <1>1
    <3>2. run[n + 1] = Record(run[n], results[n + 1])
      BY <1>6, <3>1
    <3>3. f[n + 1] = Record(f[n], results[n + 1])
      BY <1>4, <3>1
    <3>4. QED
      BY <2>2, <3>1, <3>2, <3>3
  <2> HIDE DEF T
  <2>3. QED
    BY <2>1, <2>2, SetInduction
<1>9. run[N] = f[N] /\ f[N] \in V
  BY <1>1, <1>8
<1>10. QED
  BY <1>7, <1>9 DEF V

-----------------------------------------------------------------------------
(***************************************************************************)
(* The shape of a turn, and what makes it safe.                            *)
(***************************************************************************)
Labels == {"idle", "store", "load", "recall", "summarize", "ask", "stream",
           "reply", "tools", "closing", "done", "lost"}

\* What a turn holds in memory.
TurnShape ==
  /\ pc \in [Turns -> Labels] /\ stop \in [Turns -> BOOLEAN] /\ route \in [Turns -> Nat \ {0}]
  /\ guard \in [Turns -> Guards] /\ dropped \in [Turns -> SUBSET Rejectable] /\ said \in [Turns -> BOOLEAN]
  /\ calls \in [Turns -> Seq(Calls)] /\ heard \in [Turns -> SUBSET Nat]
  /\ counted \in [Turns -> Nat] /\ billed \in [Turns -> Nat] /\ row \in [Turns -> Nat]
  /\ ended \in [Turns -> {"", "done", "error", "cancelled"}] /\ answered \in [Turns -> BOOLEAN]

ShapeOf(t) ==
  /\ pc[t] \in Labels /\ stop[t] \in BOOLEAN /\ route[t] \in Nat \ {0}
  /\ guard[t] \in Guards /\ dropped[t] \in SUBSET Rejectable /\ said[t] \in BOOLEAN
  /\ calls[t] \in Seq(Calls) /\ heard[t] \in SUBSET Nat
  /\ counted[t] \in Nat /\ billed[t] \in Nat /\ row[t] \in Nat
  /\ ended[t] \in {"", "done", "error", "cancelled"} /\ answered[t] \in BOOLEAN

\* Only the route the turn is on was heard.
OneHeard(t) == heard[t] \subseteq {route[t]}

\* The tools that run are one batch: all before it have ended, and what is not
\* its first may run beside others, and so may the first then.
Over(t, k) == calls[t][k].state \in {"ok", "failed"}
BatchFrom(t, i) ==
  /\ \A k \in DOMAIN calls[t] : k < i => Over(t, k)
  /\ \A k \in InState(t, "running") :
       /\ i <= k /\ k <= i + MaxParallel - 1
       /\ k # i => \A j \in i..k : IsParallel(t, j)
OneBatch(t) == \E i \in Nat \ {0} : BatchFrom(t, i)

\* The guard stops the loop by the last round, and one more round may follow
\* once the model was told to wrap up.
Bounded(t) ==
  LET g == guard[t] IN
  /\ g.wrapped => g.stopped > 0
  /\ g.stopped = 0 => g.rounds < MaxRounds
  /\ g.stopped > 0 => g.stopped <= MaxRounds /\ g.rounds <= g.stopped + 1
  /\ g.stopped > 0 /\ ~g.wrapped => g.rounds <= g.stopped
  /\ g.stopped > 0 /\ pc[t] \in {"stream", "reply", "tools"} => g.wrapped /\ g.rounds <= g.stopped

\* What was billed was counted, or could not be; and a route that may still be
\* left has billed nothing that was not.
Accounted(t) ==
  /\ counted[t] = billed[t] \/ "stream_options" \in dropped[t]
  /\ heard[t] = {} /\ pc[t] \notin {"reply", "closing"} => counted[t] = billed[t]

TurnFits(t) == ShapeOf(t) /\ OneHeard(t) /\ OneBatch(t) /\ Bounded(t) /\ Accounted(t)

\* All that is said of a turn, apart from its pc.
SameTurn(t) ==
  /\ stop'[t] = stop[t] /\ route'[t] = route[t] /\ guard'[t] = guard[t] /\ dropped'[t] = dropped[t] /\ said'[t] = said[t]
  /\ calls'[t] = calls[t] /\ heard'[t] = heard[t] /\ counted'[t] = counted[t] /\ billed'[t] = billed[t]
  /\ ended'[t] = ended[t] /\ answered'[t] = answered[t]

\* Functions over the turns, one by one.
LEMMA ShapeParts ==
  /\ TurnShape => \A t \in Turns : ShapeOf(t)
  /\ TurnShape => /\ DOMAIN pc = Turns /\ DOMAIN stop = Turns /\ DOMAIN route = Turns /\ DOMAIN guard = Turns
                  /\ DOMAIN dropped = Turns /\ DOMAIN said = Turns /\ DOMAIN calls = Turns /\ DOMAIN heard = Turns
                  /\ DOMAIN counted = Turns /\ DOMAIN billed = Turns /\ DOMAIN row = Turns /\ DOMAIN ended = Turns
                  /\ DOMAIN answered = Turns
BY DEF TurnShape, ShapeOf

\* A turn that has nothing.
LEMMA BlankTurn ==
  /\ NewGuard \in Guards /\ NewGuard.rounds = 0 /\ NewGuard.stopped = 0 /\ NewGuard.wrapped = FALSE
  /\ <<>> \in Seq(Calls)
BY DEF NewGuard, Guards

-----------------------------------------------------------------------------
(***************************************************************************)
(* What a step makes of the turn it is a step of.                          *)
(***************************************************************************)

\* A step of t changes nothing of the other turns.
OnlyTurn(t) ==
  /\ pc' = [pc EXCEPT ![t] = pc'[t]] /\ stop' = [stop EXCEPT ![t] = stop'[t]] /\ route' = [route EXCEPT ![t] = route'[t]]
  /\ guard' = [guard EXCEPT ![t] = guard'[t]] /\ dropped' = [dropped EXCEPT ![t] = dropped'[t]]
  /\ said' = [said EXCEPT ![t] = said'[t]] /\ calls' = [calls EXCEPT ![t] = calls'[t]]
  /\ heard' = [heard EXCEPT ![t] = heard'[t]] /\ counted' = [counted EXCEPT ![t] = counted'[t]]
  /\ billed' = [billed EXCEPT ![t] = billed'[t]] /\ row' = [row EXCEPT ![t] = row'[t]]
  /\ ended' = [ended EXCEPT ![t] = ended'[t]] /\ answered' = [answered EXCEPT ![t] = answered'[t]]

\* The history is read, and compacted if it must be; or the turn does not start.
Prepares(t) == Begin(t) \/ SaveInput(t) \/ Load(t) \/ Recall(t) \/ Summarize(t) \/ SummaryFails(t)
LEMMA PreparesFields ==
  ASSUME TurnShape, NEW t \in Turns, Prepares(t)
  PROVE  /\ OnlyTurn(t) /\ SameTurn(t) /\ row'[t] = row[t]
         /\ pc[t] \in {"idle", "store", "load", "recall", "summarize"}
         /\ pc'[t] \in {"store", "done", "load", "recall", "summarize", "ask"}
<1>1. /\ UNCHANGED <<stop, route, guard, dropped, said, calls, heard, counted, billed, row, ended, answered>>
      /\ \E l \in {"store", "done", "load", "recall", "summarize", "ask"} : pc' = [pc EXCEPT ![t] = l]
      /\ pc[t] \in {"idle", "store", "load", "recall", "summarize"}
  <2>1. CASE Begin(t)
    BY <2>1 DEF Begin, Goto, db, context, answer, history, env
  <2>2. CASE SaveInput(t)
    BY <2>2 DEF SaveInput, Goto, context, answer, history, env
  <2>3. CASE Load(t)
    BY <2>3 DEF Load, Goto, db, answer, history, env
  <2>4. CASE Recall(t)
    BY <2>4, Zenon DEF Recall, Goto, db, answer, history
  <2>5. CASE Summarize(t)
    BY <2>5 DEF Summarize, Goto, answer, history
  <2>6. CASE SummaryFails(t)
    BY <2>6 DEF SummaryFails, Goto, db, answer, history, env
  <2>7. QED
    BY <2>1, <2>2, <2>3, <2>4, <2>5, <2>6 DEF Prepares
<1>2. QED
  BY <1>1 DEF TurnShape, OnlyTurn, SameTurn

\* An end that bills nothing.
Ends(t) == LeaveLoop(t) \/ StreamFails(t) \/ DbFails(t)
LEMMA EndsFields ==
  ASSUME TurnShape, NEW t \in Turns, Ends(t)
  PROVE  /\ OnlyTurn(t) /\ row'[t] = row[t]
         /\ stop'[t] = stop[t] /\ route'[t] = route[t] /\ guard'[t] = guard[t] /\ dropped'[t] = dropped[t] /\ said'[t] = said[t]
         /\ calls'[t] = calls[t] /\ heard'[t] = heard[t] /\ counted'[t] = counted[t] /\ billed'[t] = billed[t]
         /\ answered'[t] = answered[t] /\ ended'[t] \in {"", "done", "error", "cancelled"}
         /\ pc'[t] = "closing"
<1>1. /\ UNCHANGED <<stop, route, guard, dropped, said, calls, heard, counted, billed, row, answered>>
      /\ \E how \in {"done", "error", "cancelled"} : ended' = [ended EXCEPT ![t] = how]
      /\ pc' = [pc EXCEPT ![t] = "closing"]
  <2>1. CASE LeaveLoop(t)
    BY <2>1 DEF LeaveLoop, End, Goto, db, context, answer
  <2>2. CASE StreamFails(t)
    BY <2>2 DEF StreamFails, End, Goto, db, context, answer
  <2>3. CASE DbFails(t)
    BY <2>3 DEF DbFails, End, Goto, db, context, answer
  <2>4. QED
    BY <2>1, <2>2, <2>3 DEF Ends
<1>2. QED
  BY <1>1 DEF TurnShape, OnlyTurn

LEMMA AskFields ==
  ASSUME TurnShape, NEW t \in Turns, Ask(t)
  PROVE  /\ OnlyTurn(t) /\ row'[t] = row[t]
         /\ stop'[t] = stop[t] /\ route'[t] = route[t] /\ dropped'[t] = dropped[t] /\ said'[t] = FALSE
         /\ calls'[t] = calls[t] /\ heard'[t] = heard[t] /\ counted'[t] = counted[t] /\ billed'[t] = billed[t]
         /\ answered'[t] = answered[t] /\ ended'[t] = ended[t]
         /\ pc[t] = "ask" /\ pc'[t] = "stream" /\ ~(guard[t].stopped > 0 /\ guard[t].wrapped)
         /\ guard'[t] = [guard[t] EXCEPT !.wrapped = guard[t].stopped > 0]
BY DEF Ask, Goto, db, context, history, env, TurnShape, OnlyTurn

LEMMA DeltaFields ==
  ASSUME TurnShape, NEW t \in Turns, Delta(t)
  PROVE  /\ OnlyTurn(t) /\ row'[t] = row[t]
         /\ stop'[t] = stop[t] /\ route'[t] = route[t] /\ guard'[t] = guard[t] /\ dropped'[t] = dropped[t] /\ said'[t] = TRUE
         /\ calls'[t] = calls[t] /\ heard'[t] = heard[t] \union {route[t]} /\ counted'[t] = counted[t] /\ billed'[t] = billed[t]
         /\ answered'[t] = answered[t] /\ ended'[t] = ended[t]
         /\ pc[t] = "stream" /\ pc'[t] = "stream"
BY DEF Delta, Hear, db, context, env, TurnShape, OnlyTurn

LEMMA RejectedFields ==
  ASSUME TurnShape, NEW t \in Turns, Rejected(t)
  PROVE  /\ OnlyTurn(t) /\ row'[t] = row[t]
         /\ stop'[t] = stop[t] /\ route'[t] = route[t] /\ guard'[t] = guard[t] /\ said'[t] = said[t]
         /\ calls'[t] = calls[t] /\ heard'[t] = heard[t] /\ counted'[t] = counted[t] /\ billed'[t] = billed[t]
         /\ answered'[t] = answered[t] /\ ended'[t] = ended[t]
         /\ dropped[t] \subseteq dropped'[t] /\ dropped'[t] \in SUBSET Rejectable
         /\ pc[t] = "stream" /\ pc'[t] = "ask"
<1>1. /\ UNCHANGED <<stop, route, guard, said, calls, heard, counted, billed, row, answered, ended>>
      /\ pc[t] = "stream" /\ pc' = [pc EXCEPT ![t] = "ask"]
      /\ \E part \in Rejectable : dropped' = [dropped EXCEPT ![t] = dropped[t] \union {part}]
  BY DEF Rejected, Goto, db, context, history, env
<1>2. PICK part \in Rejectable : dropped' = [dropped EXCEPT ![t] = dropped[t] \union {part}]
  BY <1>1
<1>3. dropped' = [dropped EXCEPT ![t] = dropped'[t]] /\ dropped'[t] = dropped[t] \union {part} /\ dropped[t] \in SUBSET Rejectable
  BY <1>2 DEF TurnShape
<1>4. dropped[t] \subseteq dropped'[t] /\ dropped'[t] \in SUBSET Rejectable
  BY <1>3
<1>5. QED
  BY <1>1, <1>3, <1>4 DEF TurnShape, OnlyTurn

LEMMA FailoverFields ==
  ASSUME TurnShape, NEW t \in Turns, Failover(t)
  PROVE  /\ OnlyTurn(t) /\ row'[t] = row[t]
         /\ stop'[t] = stop[t] /\ route'[t] = route[t] + 1 /\ guard'[t] = NewGuard /\ dropped'[t] = {} /\ said'[t] = said[t]
         /\ calls'[t] = calls[t] /\ heard'[t] = heard[t] /\ counted'[t] = counted[t] /\ billed'[t] = billed[t]
         /\ answered'[t] = answered[t] /\ ended'[t] = ended[t]
         /\ heard[t] = {} /\ pc[t] = "stream" /\ pc'[t] = "store"
BY DEF Failover, Goto, db, context, history, env, TurnShape, OnlyTurn

LEMMA StoppedFields ==
  ASSUME TurnShape, NEW t \in Turns, Stopped(t)
  PROVE  /\ OnlyTurn(t) /\ row'[t] = row[t]
         /\ stop'[t] = stop[t] /\ route'[t] = route[t] /\ guard'[t] = guard[t] /\ dropped'[t] = dropped[t] /\ said'[t] = said[t]
         /\ calls'[t] = calls[t] /\ heard'[t] = heard[t] /\ counted'[t] = counted[t] + 1 /\ billed'[t] = billed[t] + 1
         /\ answered'[t] = answered[t] /\ ended'[t] = "cancelled"
         /\ pc[t] = "stream" /\ pc'[t] = "closing"
BY DEF Stopped, Bill, Count, End, Goto, context, answer, TurnShape, OnlyTurn

LEMMA CompleteFields ==
  ASSUME TurnShape, NEW t \in Turns, NEW wanted, Complete(t, wanted)
  PROVE  /\ OnlyTurn(t) /\ row'[t] = row[t]
         /\ stop'[t] = stop[t] /\ route'[t] = route[t] /\ guard'[t] = guard[t] /\ dropped'[t] = dropped[t] /\ said'[t] = said[t]
         /\ heard'[t] = heard[t] /\ billed'[t] = billed[t] + 1
         /\ counted'[t] = IF "stream_options" \in dropped[t] THEN counted[t] ELSE counted[t] + 1
         /\ calls'[t] = [k \in DOMAIN wanted |-> [tool |-> wanted[k], state |-> "new"]]
         /\ answered'[t] = guard[t].wrapped /\ ended'[t] = ended[t]
         /\ pc[t] = "stream" /\ pc'[t] = "reply"
<1>1. /\ UNCHANGED <<stop, route, guard, dropped, said, heard, row, ended>>
      /\ billed' = [billed EXCEPT ![t] = @ + 1]
      /\ calls' = [calls EXCEPT ![t] = [k \in DOMAIN wanted |-> [tool |-> wanted[k], state |-> "new"]]]
      /\ answered' = [answered EXCEPT ![t] = guard[t].wrapped]
      /\ pc[t] = "stream" /\ pc' = [pc EXCEPT ![t] = "reply"]
      /\ counted' = [counted EXCEPT ![t] = IF "stream_options" \in dropped[t] THEN counted[t] ELSE counted[t] + 1]
  BY DEF Complete, Bill, Count, Goto, db, context, env, TurnShape
<1>2. QED
  BY <1>1 DEF TurnShape, OnlyTurn

LEMMA SaveReplyFields ==
  ASSUME TurnShape, NEW t \in Turns, SaveReply(t)
  PROVE  /\ OnlyTurn(t) /\ row'[t] = row[t]
         /\ stop'[t] = stop[t] /\ route'[t] = route[t] /\ guard'[t] = guard[t] /\ dropped'[t] = dropped[t] /\ said'[t] = said[t]
         /\ calls'[t] = calls[t] /\ counted'[t] = counted[t] /\ billed'[t] = billed[t] /\ answered'[t] = answered[t]
         /\ ended'[t] \in {ended[t], "done"} /\ pc[t] = "reply"
         /\ \/ pc'[t] = "closing" /\ heard'[t] = heard[t]
            \/ pc'[t] = "tools" /\ heard'[t] = heard[t] \union {route[t]}
<1>1. CASE calls[t] = <<>>
  BY <1>1 DEF SaveReply, KeepReply, Hear, End, Goto, context, answer, env, TurnShape, OnlyTurn
<1>2. CASE calls[t] # <<>>
  BY <1>2 DEF SaveReply, KeepReply, Hear, End, Goto, context, answer, env, TurnShape, OnlyTurn
<1>3. QED
  BY <1>1, <1>2

\* A step of the tools' calls.
ToolStep(t) == StartBatch(t) \/ FinishTool(t)
LEMMA ToolStepFields ==
  ASSUME TurnShape, NEW t \in Turns, ToolStep(t)
  PROVE  /\ OnlyTurn(t) /\ row'[t] = row[t]
         /\ stop'[t] = stop[t] /\ route'[t] = route[t] /\ guard'[t] = guard[t] /\ dropped'[t] = dropped[t] /\ said'[t] = said[t]
         /\ heard'[t] = heard[t] /\ counted'[t] = counted[t] /\ billed'[t] = billed[t]
         /\ answered'[t] = answered[t] /\ ended'[t] = ended[t]
         /\ pc[t] = "tools" /\ pc'[t] = pc[t]
<1>1. /\ UNCHANGED <<pc, stop, route, guard, dropped, said, heard, counted, billed, row, ended, answered>>
      /\ pc[t] = "tools" /\ calls' = [calls EXCEPT ![t] = calls'[t]]
  <2>1. CASE StartBatch(t)
    BY <2>1 DEF StartBatch, db, context, history, env, TurnShape
  <2>2. CASE FinishTool(t)
    BY <2>2 DEF FinishTool, db, context, history, env, TurnShape
  <2>3. QED
    BY <2>1, <2>2 DEF ToolStep
<1>2. QED
  BY <1>1 DEF TurnShape, OnlyTurn

LEMMA EndToolsFields ==
  ASSUME TurnShape, NEW t \in Turns, EndTools(t)
  PROVE  /\ OnlyTurn(t) /\ row'[t] = row[t]
         /\ stop'[t] = stop[t] /\ route'[t] = route[t] /\ dropped'[t] = dropped[t] /\ said'[t] = said[t]
         /\ calls'[t] = <<>> /\ heard'[t] = heard[t] /\ counted'[t] = counted[t] /\ billed'[t] = billed[t]
         /\ answered'[t] = answered[t] /\ ended'[t] = ended[t]
         /\ \E spent \in BOOLEAN : guard'[t] = EndRound(RecordAll(guard[t], calls[t]), spent)
         /\ pc[t] = "tools" /\ pc'[t] = "ask"
BY DEF EndTools, Goto, context, history, env, TurnShape, OnlyTurn

LEMMA RecordUsageFields ==
  ASSUME TurnShape, NEW t \in Turns, RecordUsage(t)
  PROVE  /\ OnlyTurn(t) /\ row'[t] \in {row[t], counted[t]}
         /\ stop'[t] = FALSE /\ route'[t] = 1 /\ guard'[t] = NewGuard /\ dropped'[t] = {} /\ said'[t] = FALSE
         /\ calls'[t] = <<>> /\ heard'[t] = {} /\ counted'[t] = 0 /\ billed'[t] = 0
         /\ answered'[t] = FALSE /\ ended'[t] = ""
         /\ pc[t] = "closing" /\ pc'[t] = "done"
BY DEF RecordUsage, Forget, Goto, TurnShape, OnlyTurn

LEMMA PressStopFields ==
  ASSUME TurnShape, NEW t \in Turns, PressStop(t)
  PROVE  /\ OnlyTurn(t) /\ row'[t] = row[t]
         /\ stop'[t] = TRUE /\ route'[t] = route[t] /\ guard'[t] = guard[t] /\ dropped'[t] = dropped[t] /\ said'[t] = said[t]
         /\ calls'[t] = calls[t] /\ heard'[t] = heard[t] /\ counted'[t] = counted[t] /\ billed'[t] = billed[t]
         /\ answered'[t] = answered[t] /\ ended'[t] = ended[t] /\ pc'[t] = pc[t]
BY DEF PressStop, db, context, answer, history, env, TurnShape, OnlyTurn

-----------------------------------------------------------------------------
(***************************************************************************)
(* What a step keeps.                                                      *)
(***************************************************************************)

\* The other turns are left as they were.
LEMMA OthersLeft ==
  ASSUME TurnShape, NEW t \in Turns, OnlyTurn(t), NEW u \in Turns, u # t
  PROVE  SameTurn(u) /\ pc'[u] = pc[u] /\ row'[u] = row[u]
BY DEF TurnShape, OnlyTurn, SameTurn

\* Changed in one turn only, the variables keep their shape.
LEMMA ShapeKept ==
  ASSUME TurnShape, NEW t \in Turns, OnlyTurn(t), ShapeOf(t)'
  PROVE  TurnShape'
<1>1. /\ pc'[t] \in Labels /\ stop'[t] \in BOOLEAN /\ route'[t] \in Nat \ {0}
      /\ guard'[t] \in Guards /\ dropped'[t] \in SUBSET Rejectable /\ said'[t] \in BOOLEAN
      /\ calls'[t] \in Seq(Calls) /\ heard'[t] \in SUBSET Nat
      /\ counted'[t] \in Nat /\ billed'[t] \in Nat /\ row'[t] \in Nat
      /\ ended'[t] \in {"", "done", "error", "cancelled"} /\ answered'[t] \in BOOLEAN
  BY DEF ShapeOf
<1>2. QED
  BY <1>1 DEF TurnShape, OnlyTurn

\* A turn that looks the same fits as it did.
LEMMA SameFits ==
  ASSUME NEW t \in Turns, TurnFits(t), SameTurn(t), pc'[t] = pc[t], row'[t] = row[t]
  PROVE  TurnFits(t)'
<1>1. ShapeOf(t)' /\ OneHeard(t)'
  BY DEF TurnFits, SameTurn, ShapeOf, OneHeard
<1>2. OneBatch(t)'
  BY DEF TurnFits, SameTurn, OneBatch, BatchFrom, InState, Over, IsParallel
<1>3. Bounded(t)'
  BY DEF TurnFits, SameTurn, Bounded
<1>4. Accounted(t)'
  BY DEF TurnFits, SameTurn, Accounted
<1>5. QED
  BY <1>1, <1>2, <1>3, <1>4 DEF TurnFits

\* The same calls are the same batch.
LEMMA BatchKept ==
  ASSUME NEW t \in Turns, OneBatch(t), calls'[t] = calls[t]
  PROVE  OneBatch(t)'
BY DEF OneBatch, BatchFrom, InState, Over, IsParallel

\* Where no call has begun there is no batch.
LEMMA NoBatch ==
  ASSUME NEW t \in Turns, \A k \in DOMAIN calls'[t] : calls'[t][k].state = "new" /\ k \in Nat \ {0}
  PROVE  OneBatch(t)'
<1>1. BatchFrom(t, 1)'
  BY DEF BatchFrom, InState, Over
<1>2. QED
  BY <1>1 DEF OneBatch

LEMMA PreparesFits ==
  ASSUME TurnShape, NEW t \in Turns, TurnFits(t), Prepares(t)
  PROVE  TurnFits(t)'
<1> /\ SameTurn(t) /\ row'[t] = row[t]
    /\ pc[t] \in {"idle", "store", "load", "recall", "summarize"}
    /\ pc'[t] \in {"store", "done", "load", "recall", "summarize", "ask"}
  BY PreparesFields
<1>1. ShapeOf(t)' /\ OneHeard(t)'
  BY DEF TurnFits, SameTurn, ShapeOf, OneHeard, Labels
<1>2. OneBatch(t)'
  BY BatchKept DEF TurnFits, SameTurn
<1>3. Bounded(t)'
  BY DEF TurnFits, SameTurn, Bounded
<1>4. Accounted(t)'
  BY DEF TurnFits, SameTurn, Accounted
<1>5. QED
  BY <1>1, <1>2, <1>3, <1>4 DEF TurnFits

LEMMA EndsFits ==
  ASSUME TurnShape, NEW t \in Turns, TurnFits(t), Ends(t)
  PROVE  TurnFits(t)'
<1> /\ row'[t] = row[t]
    /\ stop'[t] = stop[t] /\ route'[t] = route[t] /\ guard'[t] = guard[t] /\ dropped'[t] = dropped[t] /\ said'[t] = said[t]
    /\ calls'[t] = calls[t] /\ heard'[t] = heard[t] /\ counted'[t] = counted[t] /\ billed'[t] = billed[t]
    /\ answered'[t] = answered[t] /\ ended'[t] \in {"", "done", "error", "cancelled"}
    /\ pc'[t] = "closing"
  BY EndsFields
<1>1. ShapeOf(t)' /\ OneHeard(t)'
  <2>1. ShapeOf(t)'
    BY DEF TurnFits, ShapeOf, Labels
  <2>2. OneHeard(t)'
    BY DEF TurnFits, OneHeard
  <2>3. QED
    BY <2>1, <2>2
<1>2. OneBatch(t)'
  BY BatchKept DEF TurnFits
<1>3. Bounded(t)'
  BY DEF TurnFits, Bounded
<1>4. Accounted(t)'
  BY DEF TurnFits, Accounted
<1>5. QED
  BY <1>1, <1>2, <1>3, <1>4 DEF TurnFits

LEMMA AskFits ==
  ASSUME TurnShape, NEW t \in Turns, TurnFits(t), Ask(t)
  PROVE  TurnFits(t)'
<1> /\ row'[t] = row[t]
    /\ stop'[t] = stop[t] /\ route'[t] = route[t] /\ dropped'[t] = dropped[t] /\ said'[t] = FALSE
    /\ calls'[t] = calls[t] /\ heard'[t] = heard[t] /\ counted'[t] = counted[t] /\ billed'[t] = billed[t]
    /\ answered'[t] = answered[t] /\ ended'[t] = ended[t]
    /\ pc[t] = "ask" /\ pc'[t] = "stream" /\ ~(guard[t].stopped > 0 /\ guard[t].wrapped)
    /\ guard'[t] = [guard[t] EXCEPT !.wrapped = guard[t].stopped > 0]
  BY AskFields
<1>1. guard[t] \in Guards
  BY DEF TurnFits, ShapeOf
<1>2. /\ guard'[t] \in Guards /\ guard'[t].rounds = guard[t].rounds /\ guard'[t].stopped = guard[t].stopped
      /\ guard'[t].wrapped = (guard[t].stopped > 0)
  <2>1. PICK g \in Guards : g = guard[t]
    BY <1>1
  <2>2. PICK b \in BOOLEAN : b = (g.stopped > 0)
    <3>1. CASE g.stopped > 0
      <4>1. TRUE = (g.stopped > 0)
        BY <3>1
      <4>2. QED
        BY <4>1
    <3>2. CASE ~(g.stopped > 0)
      <4>1. FALSE = (g.stopped > 0)
        BY <3>2
      <4>2. QED
        BY <4>1
    <3>3. QED
      BY <3>1, <3>2
  <2>3. [g EXCEPT !.wrapped = b] \in Guards /\ [g EXCEPT !.wrapped = b].wrapped = b
    BY <2>2 DEF Guards
  <2>4. [g EXCEPT !.wrapped = b].rounds = g.rounds /\ [g EXCEPT !.wrapped = b].stopped = g.stopped
    BY DEF Guards
  <2>5. guard'[t] = [g EXCEPT !.wrapped = b]
    BY <2>1, <2>2
  <2>6. QED
    BY <2>1, <2>2, <2>3, <2>4, <2>5
<1>3. ShapeOf(t)' /\ OneHeard(t)'
  <2>1. ShapeOf(t)'
    BY <1>2 DEF TurnFits, ShapeOf, Labels
  <2>2. OneHeard(t)'
    BY DEF TurnFits, OneHeard
  <2>3. QED
    BY <2>1, <2>2
<1>4. OneBatch(t)'
  BY BatchKept DEF TurnFits
<1>5. Bounded(t)'
  <2>1. guard[t].stopped > 0 => ~guard[t].wrapped
    OBVIOUS
  <2>2. QED
    BY <1>1, <1>2, <2>1 DEF TurnFits, Bounded, Guards
<1>6. Accounted(t)'
  BY DEF TurnFits, Accounted
<1>7. QED
  BY <1>3, <1>4, <1>5, <1>6 DEF TurnFits

LEMMA DeltaFits ==
  ASSUME TurnShape, NEW t \in Turns, TurnFits(t), Delta(t)
  PROVE  TurnFits(t)'
<1> /\ row'[t] = row[t]
    /\ stop'[t] = stop[t] /\ route'[t] = route[t] /\ guard'[t] = guard[t] /\ dropped'[t] = dropped[t] /\ said'[t] = TRUE
    /\ calls'[t] = calls[t] /\ heard'[t] = heard[t] \union {route[t]} /\ counted'[t] = counted[t] /\ billed'[t] = billed[t]
    /\ answered'[t] = answered[t] /\ ended'[t] = ended[t]
    /\ pc[t] = "stream" /\ pc'[t] = "stream"
  BY DeltaFields
<1>1. ShapeOf(t)' /\ OneHeard(t)'
  <2>1. ShapeOf(t)'
    BY DEF TurnFits, ShapeOf, Labels
  <2>2. OneHeard(t)'
    BY DEF TurnFits, OneHeard
  <2>3. QED
    BY <2>1, <2>2
<1>2. OneBatch(t)'
  BY BatchKept DEF TurnFits
<1>3. Bounded(t)'
  BY DEF TurnFits, Bounded
<1>4. Accounted(t)'
  BY DEF TurnFits, Accounted
<1>5. QED
  BY <1>1, <1>2, <1>3, <1>4 DEF TurnFits

LEMMA RejectedFits ==
  ASSUME TurnShape, NEW t \in Turns, TurnFits(t), Rejected(t)
  PROVE  TurnFits(t)'
<1> /\ row'[t] = row[t]
    /\ stop'[t] = stop[t] /\ route'[t] = route[t] /\ guard'[t] = guard[t] /\ said'[t] = said[t]
    /\ calls'[t] = calls[t] /\ heard'[t] = heard[t] /\ counted'[t] = counted[t] /\ billed'[t] = billed[t]
    /\ answered'[t] = answered[t] /\ ended'[t] = ended[t]
    /\ dropped[t] \subseteq dropped'[t] /\ dropped'[t] \in SUBSET Rejectable
    /\ pc[t] = "stream" /\ pc'[t] = "ask"
  BY RejectedFields
<1>1. ShapeOf(t)' /\ OneHeard(t)'
  <2>1. ShapeOf(t)'
    BY DEF TurnFits, ShapeOf, Labels
  <2>2. OneHeard(t)'
    BY DEF TurnFits, OneHeard
  <2>3. QED
    BY <2>1, <2>2
<1>2. OneBatch(t)'
  BY BatchKept DEF TurnFits
<1>3. Bounded(t)'
  BY DEF TurnFits, Bounded
<1>4. Accounted(t)'
  BY DEF TurnFits, Accounted
<1>5. QED
  BY <1>1, <1>2, <1>3, <1>4 DEF TurnFits

LEMMA FailoverFits ==
  ASSUME TurnShape, NEW t \in Turns, TurnFits(t), Failover(t)
  PROVE  TurnFits(t)'
<1> /\ row'[t] = row[t]
    /\ stop'[t] = stop[t] /\ route'[t] = route[t] + 1 /\ guard'[t] = NewGuard /\ dropped'[t] = {} /\ said'[t] = said[t]
    /\ calls'[t] = calls[t] /\ heard'[t] = heard[t] /\ counted'[t] = counted[t] /\ billed'[t] = billed[t]
    /\ answered'[t] = answered[t] /\ ended'[t] = ended[t]
    /\ heard[t] = {} /\ pc[t] = "stream" /\ pc'[t] = "store"
  BY FailoverFields
<1>1. ShapeOf(t)' /\ OneHeard(t)'
  <2>1. ShapeOf(t)'
    <3>1. route[t] \in Nat \ {0}
      BY DEF TurnFits, ShapeOf
    <3>2. route'[t] \in Nat \ {0}
      BY <3>1
    <3>3. QED
      BY <3>2, BlankTurn DEF TurnFits, ShapeOf, Labels
  <2>2. OneHeard(t)'
    BY DEF TurnFits, OneHeard
  <2>3. QED
    BY <2>1, <2>2
<1>2. OneBatch(t)'
  BY BatchKept DEF TurnFits
<1>3. Bounded(t)'
  BY BlankTurn, Limits DEF Bounded
<1>4. Accounted(t)'
  BY DEF TurnFits, Accounted
<1>5. QED
  BY <1>1, <1>2, <1>3, <1>4 DEF TurnFits

LEMMA StoppedFits ==
  ASSUME TurnShape, NEW t \in Turns, TurnFits(t), Stopped(t)
  PROVE  TurnFits(t)'
<1> /\ row'[t] = row[t]
    /\ stop'[t] = stop[t] /\ route'[t] = route[t] /\ guard'[t] = guard[t] /\ dropped'[t] = dropped[t] /\ said'[t] = said[t]
    /\ calls'[t] = calls[t] /\ heard'[t] = heard[t] /\ counted'[t] = counted[t] + 1 /\ billed'[t] = billed[t] + 1
    /\ answered'[t] = answered[t] /\ ended'[t] = "cancelled"
    /\ pc[t] = "stream" /\ pc'[t] = "closing"
  BY StoppedFields
<1>1. ShapeOf(t)' /\ OneHeard(t)'
  <2>1. ShapeOf(t)'
    <3>1. counted'[t] \in Nat /\ billed'[t] \in Nat
      <4>1. counted[t] \in Nat /\ billed[t] \in Nat
        BY DEF TurnFits, ShapeOf
      <4>2. QED
        BY <4>1
    <3>2. QED
      BY <3>1 DEF TurnFits, ShapeOf, Labels
  <2>2. OneHeard(t)'
    BY DEF TurnFits, OneHeard
  <2>3. QED
    BY <2>1, <2>2
<1>2. OneBatch(t)'
  BY BatchKept DEF TurnFits
<1>3. Bounded(t)'
  BY DEF TurnFits, Bounded
<1>4. Accounted(t)'
  BY DEF TurnFits, Accounted
<1>5. QED
  BY <1>1, <1>2, <1>3, <1>4 DEF TurnFits

LEMMA CompleteFits ==
  ASSUME TurnShape, NEW t \in Turns, NEW wanted \in Menu[t] \union {<<>>}, TurnFits(t), Complete(t, wanted)
  PROVE  TurnFits(t)'
<1> /\ row'[t] = row[t]
    /\ stop'[t] = stop[t] /\ route'[t] = route[t] /\ guard'[t] = guard[t] /\ dropped'[t] = dropped[t] /\ said'[t] = said[t]
    /\ heard'[t] = heard[t] /\ billed'[t] = billed[t] + 1
    /\ counted'[t] = IF "stream_options" \in dropped[t] THEN counted[t] ELSE counted[t] + 1
    /\ calls'[t] = [k \in DOMAIN wanted |-> [tool |-> wanted[k], state |-> "new"]]
    /\ answered'[t] = guard[t].wrapped /\ ended'[t] = ended[t]
    /\ pc[t] = "stream" /\ pc'[t] = "reply"
  BY CompleteFields
<1>1. PICK n \in Nat : DOMAIN wanted = 1 .. n /\ \A k \in 1 .. n : wanted[k] \in Tools
  <2>1. CASE wanted = <<>>
    <3>1. DOMAIN wanted = 1 .. 0
      BY <2>1
    <3>2. QED
      BY <3>1
  <2>2. CASE wanted \in Menu[t]
    <3>1. wanted \in Seq(Range(wanted))
      BY <2>2, TurnAssumption
    <3>2. Range(wanted) \subseteq Tools
      BY <2>2 DEF Tools
    <3>3. Len(wanted) \in Nat /\ DOMAIN wanted = 1 .. Len(wanted) /\ \A k \in 1 .. Len(wanted) : wanted[k] \in Range(wanted)
      BY <3>1
    <3>4. QED
      BY <3>2, <3>3
  <2>3. QED
    BY <2>1, <2>2
<1>2. /\ calls'[t] = [k \in 1 .. n |-> [tool |-> wanted[k], state |-> "new"]]
      /\ \A k \in 1 .. n : [tool |-> wanted[k], state |-> "new"] \in Calls
  BY <1>1 DEF Calls
<1>3. calls'[t] \in Seq(Calls)
  BY <1>2
<1>4. guard[t].wrapped \in BOOLEAN
  BY DEF TurnFits, ShapeOf, Guards
<1>5. ShapeOf(t)' /\ OneHeard(t)'
  <2>1. ShapeOf(t)'
    <3>1. counted'[t] \in Nat /\ billed'[t] \in Nat
      <4>1. counted[t] \in Nat /\ billed[t] \in Nat
        BY DEF TurnFits, ShapeOf
      <4>2. QED
        BY <4>1
    <3>2. answered'[t] \in BOOLEAN
      BY <1>4
    <3>3. QED
      BY <1>3, <3>1, <3>2 DEF TurnFits, ShapeOf, Labels
  <2>2. OneHeard(t)'
    BY DEF TurnFits, OneHeard
  <2>3. QED
    BY <2>1, <2>2
<1>6. OneBatch(t)'
  <2>1. \A k \in DOMAIN calls'[t] : calls'[t][k].state = "new" /\ k \in Nat \ {0}
    BY <1>2
  <2>2. QED
    BY <2>1, NoBatch
<1>7. Bounded(t)'
  BY DEF TurnFits, Bounded
<1>8. Accounted(t)'
  BY DEF TurnFits, Accounted
<1>9. QED
  BY <1>5, <1>6, <1>7, <1>8 DEF TurnFits

LEMMA SaveReplyFits ==
  ASSUME TurnShape, NEW t \in Turns, TurnFits(t), SaveReply(t)
  PROVE  TurnFits(t)'
<1> /\ row'[t] = row[t]
    /\ stop'[t] = stop[t] /\ route'[t] = route[t] /\ guard'[t] = guard[t] /\ dropped'[t] = dropped[t] /\ said'[t] = said[t]
    /\ calls'[t] = calls[t] /\ counted'[t] = counted[t] /\ billed'[t] = billed[t] /\ answered'[t] = answered[t]
    /\ ended'[t] \in {ended[t], "done"} /\ pc[t] = "reply"
    /\ \/ pc'[t] = "closing" /\ heard'[t] = heard[t]
       \/ pc'[t] = "tools" /\ heard'[t] = heard[t] \union {route[t]}
  BY SaveReplyFields
<1>1. ShapeOf(t)' /\ OneHeard(t)'
  <2>1. ShapeOf(t)'
    BY DEF TurnFits, ShapeOf, Labels
  <2>2. OneHeard(t)'
    BY DEF TurnFits, OneHeard
  <2>3. QED
    BY <2>1, <2>2
<1>2. OneBatch(t)'
  BY BatchKept DEF TurnFits
<1>3. Bounded(t)'
  BY DEF TurnFits, Bounded
<1>4. Accounted(t)'
  BY DEF TurnFits, Accounted
<1>5. QED
  BY <1>1, <1>2, <1>3, <1>4 DEF TurnFits

LEMMA PressStopFits ==
  ASSUME TurnShape, NEW t \in Turns, TurnFits(t), PressStop(t)
  PROVE  TurnFits(t)'
<1> /\ row'[t] = row[t]
    /\ stop'[t] = TRUE /\ route'[t] = route[t] /\ guard'[t] = guard[t] /\ dropped'[t] = dropped[t] /\ said'[t] = said[t]
    /\ calls'[t] = calls[t] /\ heard'[t] = heard[t] /\ counted'[t] = counted[t] /\ billed'[t] = billed[t]
    /\ answered'[t] = answered[t] /\ ended'[t] = ended[t] /\ pc'[t] = pc[t]
  BY PressStopFields
<1>1. ShapeOf(t)' /\ OneHeard(t)'
  <2>1. ShapeOf(t)'
    BY DEF TurnFits, ShapeOf, Labels
  <2>2. OneHeard(t)'
    BY DEF TurnFits, OneHeard
  <2>3. QED
    BY <2>1, <2>2
<1>2. OneBatch(t)'
  BY BatchKept DEF TurnFits
<1>3. Bounded(t)'
  BY DEF TurnFits, Bounded
<1>4. Accounted(t)'
  BY DEF TurnFits, Accounted
<1>5. QED
  BY <1>1, <1>2, <1>3, <1>4 DEF TurnFits

\* A turn that is over, or never was, has nothing.
Blank(t) ==
  /\ stop[t] = FALSE /\ route[t] = 1 /\ guard[t] = NewGuard /\ dropped[t] = {} /\ said[t] = FALSE
  /\ calls[t] = <<>> /\ heard[t] = {} /\ counted[t] = 0 /\ billed[t] = 0
  /\ answered[t] = FALSE /\ ended[t] = ""
LEMMA BlankFits ==
  ASSUME NEW t \in Turns, pc'[t] \in {"done", "lost", "idle"}, row'[t] \in Nat, Blank(t)'
  PROVE  TurnFits(t)'
<1>1. guard'[t] = NewGuard
  BY DEF Blank
<1>2. calls'[t] = <<>>
  BY DEF Blank
<1>3. route'[t] = 1 /\ dropped'[t] = {} /\ heard'[t] = {}
  BY DEF Blank
<1>4. counted'[t] = 0 /\ billed'[t] = 0
  BY DEF Blank
<1>5. ended'[t] = "" /\ stop'[t] \in BOOLEAN /\ said'[t] \in BOOLEAN /\ answered'[t] \in BOOLEAN
  BY DEF Blank
<1>6. ShapeOf(t)'
  <2>1. guard'[t] \in Guards
    BY <1>1, BlankTurn
  <2>2. calls'[t] \in Seq(Calls)
    BY <1>2
  <2>3. pc'[t] \in Labels
    BY DEF Labels
  <2>4. route'[t] \in Nat \ {0} /\ counted'[t] \in Nat /\ billed'[t] \in Nat
    BY <1>3, <1>4
  <2>5. dropped'[t] \in SUBSET Rejectable /\ heard'[t] \in SUBSET Nat
    BY <1>3
  <2>6. QED
    BY <1>5, <2>1, <2>2, <2>3, <2>4, <2>5 DEF ShapeOf
<1>7. OneHeard(t)'
  BY <1>3 DEF OneHeard
<1>8. OneBatch(t)'
  <2>1. \A k \in DOMAIN calls'[t] : calls'[t][k].state = "new" /\ k \in Nat \ {0}
    BY <1>2
  <2>2. QED
    BY <2>1, NoBatch
<1>9. Bounded(t)'
  BY <1>1, BlankTurn, Limits DEF Bounded
<1>10. Accounted(t)'
  BY <1>4 DEF Accounted
<1>11. QED
  BY <1>6, <1>7, <1>8, <1>9, <1>10 DEF TurnFits

LEMMA RecordUsageFits ==
  ASSUME TurnShape, NEW t \in Turns, TurnFits(t), RecordUsage(t)
  PROVE  TurnFits(t)'
<1>1. row[t] \in Nat /\ counted[t] \in Nat
  BY DEF TurnFits, ShapeOf
<1>2. row'[t] \in Nat /\ pc'[t] = "done"
  BY <1>1, RecordUsageFields
<1>3. Blank(t)'
  BY RecordUsageFields DEF Blank
<1>4. QED
  BY <1>2, <1>3, BlankFits

LEMMA FirstNew ==
  ASSUME NEW t \in Turns, calls[t] \in Seq(Calls), InState(t, "new") # {}
  PROVE  /\ Min(InState(t, "new")) \in InState(t, "new")
         /\ \A k \in InState(t, "new") : Min(InState(t, "new")) <= k
<1>1. InState(t, "new") \subseteq Nat
  BY DEF InState
<1>2. \E x \in InState(t, "new") : \A y \in InState(t, "new") : x <= y
  BY <1>1, LeastOf
<1>3. QED
  BY <1>2 DEF Min

\* A batch begins at the first call that has not begun.
LEMMA StartBatchFits ==
  ASSUME TurnShape, NEW t \in Turns, TurnFits(t), StartBatch(t)
  PROVE  calls'[t] \in Seq(Calls) /\ OneBatch(t)'
<1>1. PICK q \in Seq(Calls) : q = calls[t]
  BY DEF TurnFits, ShapeOf
<1>2. PICK i : i = Min(InState(t, "new"))
  OBVIOUS
<1>3. PICK B : B = Batch(t)
  OBVIOUS
<1>4. /\ Len(q) \in Nat /\ DOMAIN q = 1 .. Len(q)
      /\ \A k \in DOMAIN q : q[k] \in Calls /\ q[k].state \in {"new", "running", "ok", "failed"}
  <2>1. \A k \in DOMAIN q : q[k] \in Calls
    OBVIOUS
  <2>2. \A c \in Calls : c.state \in {"new", "running", "ok", "failed"}
    BY DEF Calls
  <2>3. QED
    BY <2>1, <2>2
<1>5. i \in DOMAIN q /\ q[i].state = "new" /\ \A k \in DOMAIN q : q[k].state = "new" => i <= k
  BY <1>1, <1>2, FirstNew DEF StartBatch, InState
<1>6. \A k \in DOMAIN q : q[k].state # "running"
  BY <1>1 DEF StartBatch, InState
<1>7. \A k \in DOMAIN q : k < i => q[k].state \in {"ok", "failed"}
  BY <1>4, <1>5, <1>6
<1>8. MaxParallel \in Nat /\ MaxParallel > 0
  BY Limits
<1>9. B = {i} \union {j \in i + 1 .. i + MaxParallel - 1 : j <= Len(q) /\ \A k \in i .. j : q[k].tool \in Parallel}
  BY <1>1, <1>2, <1>3, Zenon DEF Batch, IsParallel
<1>10. \A k \in B : i <= k /\ k <= i + MaxParallel - 1 /\ (k # i => \A j \in i .. k : q[j].tool \in Parallel)
  BY <1>4, <1>5, <1>8, <1>9
<1>11. calls'[t] = [k \in DOMAIN q |-> IF k \in B THEN [q[k] EXCEPT !.state = "running"] ELSE q[k]]
  BY <1>1, <1>3 DEF StartBatch, TurnShape
<1>12. \A k \in DOMAIN q : /\ [q[k] EXCEPT !.state = "running"] \in Calls
                           /\ [q[k] EXCEPT !.state = "running"].tool = q[k].tool
                           /\ [q[k] EXCEPT !.state = "running"].state = "running"
  BY <1>4 DEF Calls
<1>13. PICK r \in Seq(Calls) : r = calls'[t]
  <2>1. \A k \in DOMAIN q : (IF k \in B THEN [q[k] EXCEPT !.state = "running"] ELSE q[k]) \in Calls
    BY <1>4, <1>12
  <2>2. calls'[t] \in [1 .. Len(q) -> Calls]
    BY <1>4, <1>11, <2>1
  <2>3. calls'[t] \in Seq(Calls)
    BY <1>4, <2>2
  <2>4. QED
    BY <2>3
<1>14. /\ DOMAIN r = DOMAIN q
       /\ \A k \in DOMAIN q : r[k].tool = q[k].tool /\ r[k].state = IF k \in B THEN "running" ELSE q[k].state
  BY <1>11, <1>12, <1>13
<1>15. BatchFrom(t, i)'
  <2>1. \A k \in DOMAIN r : k < i => r[k].state \in {"ok", "failed"}
    <3> SUFFICES ASSUME NEW k \in DOMAIN r, k < i PROVE r[k].state \in {"ok", "failed"}
      OBVIOUS
    <3>1. k \notin B
      BY <1>4, <1>5, <1>10, <1>14
    <3>2. QED
      BY <1>7, <1>14, <3>1
  <2>2. ASSUME NEW k \in DOMAIN r, r[k].state = "running"
        PROVE  i <= k /\ k <= i + MaxParallel - 1 /\ (k # i => \A j \in i .. k : r[j].tool \in Parallel)
    <3>1. k \in B
      BY <1>6, <1>14, <2>2
    <3>2. \A j \in i .. k : j \in DOMAIN q
      BY <1>4, <1>5, <1>14
    <3>3. QED
      BY <1>10, <1>14, <3>1, <3>2
  <2>3. QED
    BY <1>13, <2>1, <2>2 DEF BatchFrom, InState, Over, IsParallel
<1>16. QED
  <2>1. i \in Nat \ {0}
    BY <1>4, <1>5
  <2>2. QED
    BY <1>13, <1>15, <2>1 DEF OneBatch

\* A tool that ends leaves the rest of its batch.
LEMMA FinishToolFits ==
  ASSUME TurnShape, NEW t \in Turns, TurnFits(t), FinishTool(t)
  PROVE  calls'[t] \in Seq(Calls) /\ OneBatch(t)'
<1>1. PICK q \in Seq(Calls) : q = calls[t]
  BY DEF TurnFits, ShapeOf
<1>2. PICK i \in Nat \ {0} : BatchFrom(t, i)
  BY DEF TurnFits, OneBatch
<1>3. PICK e \in InState(t, "running"), how \in {"ok", "failed"} : calls' = [calls EXCEPT ![t][e].state = how]
  BY DEF FinishTool
<1>4. e \in DOMAIN q /\ calls'[t] = [q EXCEPT ![e] = [q[e] EXCEPT !.state = how]]
  BY <1>1, <1>3 DEF InState, TurnShape
<1>5. /\ Len(q) \in Nat /\ DOMAIN q = 1 .. Len(q) /\ \A k \in DOMAIN q : q[k] \in Calls
  OBVIOUS
<1>6. /\ [q[e] EXCEPT !.state = how] \in Calls /\ [q[e] EXCEPT !.state = how].tool = q[e].tool
      /\ [q[e] EXCEPT !.state = how].state = how
  BY <1>3, <1>4, <1>5 DEF Calls
<1>7. PICK r \in Seq(Calls) : r = calls'[t]
  <2>1. calls'[t] \in [1 .. Len(q) -> Calls]
    BY <1>4, <1>5, <1>6
  <2>2. QED
    BY <1>5, <2>1
<1>8. /\ DOMAIN r = DOMAIN q
      /\ \A k \in DOMAIN q : r[k].tool = q[k].tool /\ r[k].state = IF k = e THEN how ELSE q[k].state
  BY <1>4, <1>6, <1>7
<1>9. /\ \A k \in DOMAIN q : k < i => q[k].state \in {"ok", "failed"}
      /\ \A k \in DOMAIN q : q[k].state = "running" =>
           i <= k /\ k <= i + MaxParallel - 1 /\ (k # i => \A j \in i .. k : q[j].tool \in Parallel)
  BY <1>1, <1>2, Zenon DEF BatchFrom, InState, Over, IsParallel
<1>10. BatchFrom(t, i)'
  <2>1. \A k \in DOMAIN r : k < i => r[k].state \in {"ok", "failed"}
    BY <1>3, <1>8, <1>9
  <2>2. ASSUME NEW k \in DOMAIN r, r[k].state = "running"
        PROVE  i <= k /\ k <= i + MaxParallel - 1 /\ (k # i => \A j \in i .. k : r[j].tool \in Parallel)
    <3>1. q[k].state = "running" /\ k \in DOMAIN q
      BY <1>3, <1>8, <2>2
    <3>2. k # i => \A j \in i .. k : j \in DOMAIN q
      BY <1>5, <3>1
    <3>3. QED
      BY <1>8, <1>9, <3>1, <3>2
  <2>3. QED
    BY <1>7, <2>1, <2>2 DEF BatchFrom, InState, Over, IsParallel
<1>11. QED
  BY <1>7, <1>10 DEF OneBatch

LEMMA ToolStepFits ==
  ASSUME TurnShape, NEW t \in Turns, TurnFits(t), ToolStep(t)
  PROVE  TurnFits(t)'
<1>1. calls'[t] \in Seq(Calls) /\ OneBatch(t)'
  BY StartBatchFits, FinishToolFits DEF ToolStep
<1>2. /\ row'[t] = row[t]
      /\ stop'[t] = stop[t] /\ route'[t] = route[t] /\ guard'[t] = guard[t] /\ dropped'[t] = dropped[t] /\ said'[t] = said[t]
      /\ heard'[t] = heard[t] /\ counted'[t] = counted[t] /\ billed'[t] = billed[t]
      /\ answered'[t] = answered[t] /\ ended'[t] = ended[t]
      /\ pc[t] = "tools" /\ pc'[t] = pc[t]
  BY ToolStepFields
<1>3. ShapeOf(t)' /\ OneHeard(t)'
  BY <1>1, <1>2 DEF TurnFits, ShapeOf, OneHeard
<1>4. Bounded(t)'
  BY <1>2 DEF TurnFits, Bounded
<1>5. Accounted(t)'
  BY <1>2 DEF TurnFits, Accounted
<1>6. QED
  BY <1>1, <1>3, <1>4, <1>5 DEF TurnFits

\* The guard at the end of a round.
LEMMA RoundEnded ==
  ASSUME NEW g \in Guards, NEW h \in Recordings(g), NEW spent \in BOOLEAN,
         g.wrapped => g.stopped > 0, g.stopped = 0 => g.rounds < MaxRounds,
         g.stopped > 0 => g.stopped <= MaxRounds /\ g.wrapped /\ g.rounds <= g.stopped
  PROVE  LET e == EndRound(h, spent)
         IN  /\ e \in Guards
             /\ e.wrapped => e.stopped > 0
             /\ e.stopped = 0 => e.rounds < MaxRounds
             /\ e.stopped > 0 => e.stopped <= MaxRounds /\ e.rounds <= e.stopped + 1
             /\ e.stopped > 0 /\ ~e.wrapped => e.rounds <= e.stopped
<1>1. /\ g.rounds \in Nat /\ g.stopped \in Nat /\ g.wrapped \in BOOLEAN
      /\ h \in Guards /\ h.rounds = g.rounds /\ h.wrapped = g.wrapped
      /\ h.stopped = g.stopped \/ (g.stopped = 0 /\ h.stopped = g.rounds + 1)
      /\ MaxRounds \in Nat /\ MaxRounds > 0
  BY Limits DEF Guards, Recordings
<1>2. PICK n : n = IF h.rounds + 1 >= MaxRounds \/ spent THEN Halt(h) ELSE h
  OBVIOUS
<1>3. /\ n \in Guards /\ n.rounds = g.rounds /\ n.wrapped = g.wrapped
      /\ n.stopped \in {h.stopped, Halt(h).stopped}
      /\ h.rounds + 1 >= MaxRounds => n.stopped = Halt(h).stopped
  BY <1>1, <1>2, Halted
<1>4. Halt(h).stopped = IF h.stopped = 0 THEN h.rounds + 1 ELSE h.stopped
  BY <1>1, Halted
<1>5. PICK e : e = [n EXCEPT !.rounds = @ + 1]
  OBVIOUS
<1>6. e \in Guards /\ e.rounds = g.rounds + 1 /\ e.wrapped = g.wrapped /\ e.stopped = n.stopped
  BY <1>1, <1>3, <1>5 DEF Guards
<1>7. e = EndRound(h, spent)
  BY <1>2, <1>5, Zenon DEF EndRound
<1>8. /\ e.wrapped => e.stopped > 0
      /\ e.stopped = 0 => e.rounds < MaxRounds
      /\ e.stopped > 0 => e.stopped <= MaxRounds /\ e.rounds <= e.stopped + 1
      /\ e.stopped > 0 /\ ~e.wrapped => e.rounds <= e.stopped
  <2>1. CASE g.stopped = 0
    <3>1. ~g.wrapped /\ g.rounds < MaxRounds
      BY <2>1
    <3>2. n.stopped = 0 \/ n.stopped = g.rounds + 1
      BY <1>1, <1>3, <1>4, <2>1
    <3>3. g.rounds + 1 >= MaxRounds => n.stopped = g.rounds + 1
      BY <1>1, <1>3, <1>4, <2>1
    <3>4. QED
      BY <1>1, <1>6, <3>1, <3>2, <3>3
  <2>2. CASE g.stopped > 0
    <3>1. n.stopped = g.stopped
      BY <1>1, <1>3, <1>4, <2>2
    <3>2. QED
      BY <1>1, <1>6, <2>2, <3>1
  <2>3. QED
    BY <1>1, <2>1, <2>2
<1>9. QED
  BY <1>6, <1>7, <1>8

LEMMA EndToolsFits ==
  ASSUME TurnShape, NEW t \in Turns, TurnFits(t), EndTools(t)
  PROVE  TurnFits(t)'
<1>1. /\ row'[t] = row[t]
      /\ stop'[t] = stop[t] /\ route'[t] = route[t] /\ dropped'[t] = dropped[t] /\ said'[t] = said[t]
      /\ heard'[t] = heard[t] /\ counted'[t] = counted[t] /\ billed'[t] = billed[t]
      /\ answered'[t] = answered[t] /\ ended'[t] = ended[t]
      /\ pc[t] = "tools" /\ pc'[t] = "ask"
  BY EndToolsFields
<1>2. calls'[t] = <<>>
  BY EndToolsFields
<1>3. PICK spent \in BOOLEAN : guard'[t] = EndRound(RecordAll(guard[t], calls[t]), spent)
  BY EndToolsFields
<1>4. PICK g \in Guards : g = guard[t]
  BY DEF TurnFits, ShapeOf
<1>5. PICK h \in Recordings(g) : h = RecordAll(guard[t], calls[t])
  <2>1. calls[t] \in Seq(Calls)
    BY DEF TurnFits, ShapeOf
  <2>2. QED
    BY <1>4, <2>1, RecordEach
<1>6. /\ g.wrapped => g.stopped > 0
      /\ g.stopped = 0 => g.rounds < MaxRounds
      /\ g.stopped > 0 => g.stopped <= MaxRounds /\ g.wrapped /\ g.rounds <= g.stopped
  BY <1>1, <1>4 DEF TurnFits, Bounded
<1>7. PICK e : e = EndRound(h, spent)
  OBVIOUS
<1>8. /\ e \in Guards
      /\ e.wrapped => e.stopped > 0
      /\ e.stopped = 0 => e.rounds < MaxRounds
      /\ e.stopped > 0 => e.stopped <= MaxRounds /\ e.rounds <= e.stopped + 1
      /\ e.stopped > 0 /\ ~e.wrapped => e.rounds <= e.stopped
  BY <1>6, <1>7, RoundEnded
<1>9. guard'[t] = e
  BY <1>3, <1>5, <1>7
<1>10. ShapeOf(t)'
  <2>1. calls'[t] \in Seq(Calls)
    BY <1>2
  <2>2. guard'[t] \in Guards
    BY <1>8, <1>9
  <2>3. QED
    BY <1>1, <2>1, <2>2 DEF TurnFits, ShapeOf, Labels
<1>11. OneHeard(t)'
  BY <1>1 DEF TurnFits, OneHeard
<1>12. OneBatch(t)'
  <2>1. \A k \in DOMAIN calls'[t] : calls'[t][k].state = "new" /\ k \in Nat \ {0}
    BY <1>2
  <2>2. QED
    BY <2>1, NoBatch
<1>13. Bounded(t)'
  BY <1>1, <1>8, <1>9 DEF Bounded
<1>14. Accounted(t)'
  BY <1>1 DEF TurnFits, Accounted
<1>15. QED
  BY <1>10, <1>11, <1>12, <1>13, <1>14 DEF TurnFits

\* One step of one turn.
OneTurn(t) == Begin(t) \/ Step(t) \/ PressStop(t)

\* What it is a step of keeps its promises, and so do the others.
LEMMA OneTurnFits ==
  ASSUME TurnShape, NEW t \in Turns, TurnFits(t), OneTurn(t)
  PROVE  OnlyTurn(t) /\ TurnFits(t)'
<1>1. CASE Prepares(t)
  BY <1>1, PreparesFields, PreparesFits
<1>2. CASE Ends(t)
  BY <1>2, EndsFields, EndsFits
<1>3. CASE Ask(t)
  BY <1>3, AskFields, AskFits
<1>4. CASE Delta(t)
  BY <1>4, DeltaFields, DeltaFits
<1>5. CASE Rejected(t)
  BY <1>5, RejectedFields, RejectedFits
<1>6. CASE Failover(t)
  BY <1>6, FailoverFields, FailoverFits
<1>7. CASE Stopped(t)
  BY <1>7, StoppedFields, StoppedFits
<1>8. ASSUME NEW wanted \in Menu[t] \union {<<>>}, Complete(t, wanted) PROVE OnlyTurn(t) /\ TurnFits(t)'
  BY <1>8, CompleteFields, CompleteFits
<1>9. CASE SaveReply(t)
  BY <1>9, SaveReplyFields, SaveReplyFits
<1>10. CASE ToolStep(t)
  BY <1>10, ToolStepFields, ToolStepFits
<1>11. CASE EndTools(t)
  BY <1>11, EndToolsFields, EndToolsFits
<1>12. CASE RecordUsage(t)
  BY <1>12, RecordUsageFields, RecordUsageFits
<1>13. CASE PressStop(t)
  BY <1>13, PressStopFields, PressStopFits
<1>14. QED
  BY <1>1, <1>2, <1>3, <1>4, <1>5, <1>6, <1>7, <1>8, <1>9, <1>10, <1>11, <1>12, <1>13
  DEF OneTurn, Step, Prepares, Ends, ToolStep

-----------------------------------------------------------------------------
(***************************************************************************)
(* The safety of the turns.                                                *)
(***************************************************************************)

\* The shape of the turns, and what is kept of each.
TurnInv == TurnShape /\ faults \in Nat /\ \A t \in Turns : TurnFits(t)

\* A server that dies takes its live turns with it; the rest are left alone.
LEMMA CrashFits ==
  ASSUME TurnInv, Crash
  PROVE  TurnInv'
<1>1. TurnShape
  BY DEF TurnInv
<1>2. ASSUME NEW t \in Turns, Live(t) PROVE Blank(t)' /\ pc'[t] = "lost" /\ row'[t] = row[t]
  BY <1>1, <1>2 DEF Crash, Forget, Blank, db
<1>3. ASSUME NEW t \in Turns, ~Live(t) PROVE SameTurn(t) /\ pc'[t] = pc[t] /\ row'[t] = row[t]
  BY <1>1, <1>3 DEF Crash, Forget, SameTurn, db
<1>4. ASSUME NEW t \in Turns PROVE TurnFits(t)'
  <2>1. TurnFits(t) /\ row[t] \in Nat
    BY DEF TurnInv, TurnFits, ShapeOf
  <2>2. CASE Live(t)
    BY <1>2, <2>1, <2>2, BlankFits
  <2>3. CASE ~Live(t)
    BY <1>3, <2>1, <2>3, SameFits
  <2>4. QED
    BY <2>2, <2>3
<1>5. TurnShape'
  <2>1. \A t \in Turns : ShapeOf(t)'
    BY <1>4 DEF TurnFits
  <2>2. row' \in [Turns -> Nat]
    BY <1>1 DEF Crash, db, TurnShape
  <2>3. pc' \in [Turns -> Labels]
    <3>1. \A t \in Turns : pc'[t] \in Labels
      BY <2>1 DEF ShapeOf
    <3>2. QED
      BY <3>1 DEF Crash, Forget
  <2>4. stop' \in [Turns -> BOOLEAN]
    <3>1. \A t \in Turns : stop'[t] \in BOOLEAN
      BY <2>1 DEF ShapeOf
    <3>2. QED
      BY <3>1 DEF Crash, Forget
  <2>5. route' \in [Turns -> Nat \ {0}]
    <3>1. \A t \in Turns : route'[t] \in Nat \ {0}
      BY <2>1 DEF ShapeOf
    <3>2. QED
      BY <3>1 DEF Crash, Forget
  <2>6. guard' \in [Turns -> Guards]
    <3>1. \A t \in Turns : guard'[t] \in Guards
      BY <2>1 DEF ShapeOf
    <3>2. QED
      BY <3>1 DEF Crash, Forget
  <2>7. dropped' \in [Turns -> SUBSET Rejectable]
    <3>1. \A t \in Turns : dropped'[t] \in SUBSET Rejectable
      BY <2>1 DEF ShapeOf
    <3>2. QED
      BY <3>1 DEF Crash, Forget
  <2>8. said' \in [Turns -> BOOLEAN]
    <3>1. \A t \in Turns : said'[t] \in BOOLEAN
      BY <2>1 DEF ShapeOf
    <3>2. QED
      BY <3>1 DEF Crash, Forget
  <2>9. calls' \in [Turns -> Seq(Calls)]
    <3>1. \A t \in Turns : calls'[t] \in Seq(Calls)
      BY <2>1 DEF ShapeOf
    <3>2. QED
      BY <3>1 DEF Crash, Forget
  <2>10. heard' \in [Turns -> SUBSET Nat]
    <3>1. \A t \in Turns : heard'[t] \in SUBSET Nat
      BY <2>1 DEF ShapeOf
    <3>2. QED
      BY <3>1 DEF Crash, Forget
  <2>11. counted' \in [Turns -> Nat]
    <3>1. \A t \in Turns : counted'[t] \in Nat
      BY <2>1 DEF ShapeOf
    <3>2. QED
      BY <3>1 DEF Crash, Forget
  <2>12. billed' \in [Turns -> Nat]
    <3>1. \A t \in Turns : billed'[t] \in Nat
      BY <2>1 DEF ShapeOf
    <3>2. QED
      BY <3>1 DEF Crash, Forget
  <2>13. ended' \in [Turns -> {"", "done", "error", "cancelled"}]
    <3>1. \A t \in Turns : ended'[t] \in {"", "done", "error", "cancelled"}
      BY <2>1 DEF ShapeOf
    <3>2. QED
      BY <3>1 DEF Crash, Forget
  <2>14. answered' \in [Turns -> BOOLEAN]
    <3>1. \A t \in Turns : answered'[t] \in BOOLEAN
      BY <2>1 DEF ShapeOf
    <3>2. QED
      BY <3>1 DEF Crash, Forget
  <2>15. QED
    BY <2>2, <2>3, <2>4, <2>5, <2>6, <2>7, <2>8, <2>9, <2>10, <2>11, <2>12, <2>13, <2>14 DEF TurnShape
<1>6. faults' \in Nat
  BY DEF TurnInv, Crash
<1>7. QED
  BY <1>4, <1>5, <1>6 DEF TurnInv

LEMMA TurnInvInit == Init => TurnInv
<1> SUFFICES ASSUME Init PROVE TurnInv
  OBVIOUS
<1>1. TurnShape
  <2>1. pc \in [Turns -> Labels] /\ ended \in [Turns -> {"", "done", "error", "cancelled"}]
    BY DEF Init, Each, Labels
  <2>2. stop \in [Turns -> BOOLEAN] /\ said \in [Turns -> BOOLEAN] /\ answered \in [Turns -> BOOLEAN]
    BY DEF Init, Each
  <2>3. route \in [Turns -> Nat \ {0}] /\ counted \in [Turns -> Nat] /\ billed \in [Turns -> Nat] /\ row \in [Turns -> Nat]
    <3>1. route = Each(1) /\ counted = Each(0) /\ billed = Each(0) /\ row = Each(0)
      BY DEF Init
    <3>2. QED
      BY <3>1 DEF Each
  <2>4. guard \in [Turns -> Guards]
    BY BlankTurn DEF Init, Each
  <2>5. calls \in [Turns -> Seq(Calls)]
    BY BlankTurn DEF Init, Each
  <2>6. dropped \in [Turns -> SUBSET Rejectable] /\ heard \in [Turns -> SUBSET Nat]
    BY DEF Init, Each
  <2>7. QED
    BY <2>1, <2>2, <2>3, <2>4, <2>5, <2>6 DEF TurnShape
<1>2. ASSUME NEW t \in Turns PROVE TurnFits(t)
  <2>1. ShapeOf(t)
    BY <1>1, ShapeParts
  <2>2. OneHeard(t) /\ Accounted(t)
    BY DEF Init, Each, OneHeard, Accounted
  <2>3. OneBatch(t)
    <3>1. calls[t] = <<>>
      BY DEF Init, Each
    <3>2. BatchFrom(t, 1)
      BY <3>1 DEF BatchFrom, InState, Over
    <3>3. QED
      BY <3>2 DEF OneBatch
  <2>4. Bounded(t)
    <3>1. guard[t] = NewGuard
      BY DEF Init, Each
    <3>2. QED
      BY <3>1, BlankTurn, Limits DEF Bounded
  <2>5. QED
    BY <2>1, <2>2, <2>3, <2>4 DEF TurnFits
<1>3. faults \in Nat
  BY DEF Init
<1>4. QED
  BY <1>1, <1>2, <1>3 DEF TurnInv

\* Faults are counted one by one.
LEMMA FaultsCounted ==
  ASSUME TurnInv, [Next]_vars
  PROVE  faults' \in Nat
<1>1. faults \in Nat
  BY DEF TurnInv
<1>2. CASE Crash
  BY <1>1, <1>2 DEF Crash
<1>3. ASSUME NEW t \in Turns, OneTurn(t) PROVE faults' = faults \/ faults' = faults + 1
  <2>1. CASE Recall(t) \/ Summarize(t)
    BY <2>1, Zenon DEF Recall, Summarize
  <2>2. CASE Stopped(t) \/ DbFails(t) \/ RecordUsage(t)
    BY <2>2, Zenon DEF Stopped, DbFails, RecordUsage
  <2>3. CASE Begin(t) \/ SaveInput(t) \/ Load(t) \/ SummaryFails(t)
    BY <2>3 DEF Begin, SaveInput, Load, SummaryFails, env
  <2>4. CASE LeaveLoop(t) \/ Ask(t) \/ Delta(t) \/ Rejected(t) \/ Failover(t) \/ StreamFails(t)
    BY <2>4 DEF LeaveLoop, Ask, Delta, Rejected, Failover, StreamFails, env
  <2>5. ASSUME NEW wanted \in Menu[t] \union {<<>>}, Complete(t, wanted) PROVE faults' = faults
    BY <2>5 DEF Complete, env
  <2>6. CASE SaveReply(t) \/ StartBatch(t) \/ FinishTool(t) \/ EndTools(t) \/ PressStop(t)
    BY <2>6 DEF SaveReply, StartBatch, FinishTool, EndTools, PressStop, env
  <2>7. QED
    BY <1>3, <2>1, <2>2, <2>3, <2>4, <2>5, <2>6 DEF OneTurn, Step
<1>4. CASE UNCHANGED vars
  BY <1>1, <1>4 DEF vars, env
<1>5. QED
  BY <1>1, <1>2, <1>3, <1>4 DEF Next, OneTurn

LEMMA TurnInvStep == TurnInv /\ [Next]_vars => TurnInv'
<1> SUFFICES ASSUME TurnInv, [Next]_vars PROVE TurnInv'
  OBVIOUS
<1>1. CASE Crash
  BY <1>1, CrashFits
<1>2. ASSUME NEW t \in Turns, OneTurn(t) PROVE TurnInv'
  <2>1. OnlyTurn(t) /\ TurnFits(t)'
    BY <1>2, OneTurnFits DEF TurnInv
  <2>2. TurnShape'
    BY <2>1, ShapeKept DEF TurnInv, TurnFits
  <2>3. ASSUME NEW u \in Turns, u # t PROVE TurnFits(u)'
    BY <2>1, <2>3, OthersLeft, SameFits DEF TurnInv
  <2>4. faults' \in Nat
    BY <1>2, FaultsCounted DEF Next, OneTurn
  <2>5. QED
    BY <2>1, <2>2, <2>3, <2>4 DEF TurnInv
<1>3. CASE UNCHANGED vars
  <2>1. ASSUME NEW t \in Turns PROVE TurnFits(t)'
    BY <1>3, SameFits DEF TurnInv, vars, db, answer, history, SameTurn
  <2>2. TurnShape'
    BY <1>3 DEF TurnInv, TurnShape, vars, db, answer, history
  <2>3. faults' \in Nat
    BY <1>3, FaultsCounted
  <2>4. QED
    BY <2>1, <2>2, <2>3 DEF TurnInv
<1>4. QED
  BY <1>1, <1>2, <1>3 DEF Next, OneTurn

\* Type correctness of what a turn holds in memory.
THEOREM TurnTypeCorrect == Spec => []TurnShape
<1>1. TurnInv => TurnShape
  BY DEF TurnInv
<1>2. QED
  BY <1>1, TurnInvInit, TurnInvStep, PTL DEF Spec

\* One provider speaks in a turn, whatever fails and however often it is retried.
THEOREM TurnHasOneVoice == Spec => []OneVoice
<1>1. TurnInv => OneVoice
  BY DEF TurnInv, TurnFits, OneHeard, OneVoice
<1>2. QED
  BY <1>1, TurnInvInit, TurnInvStep, PTL DEF Spec

\* A batch is no longer than the limit and its tools may run beside each other.
LEMMA BatchInOrder ==
  ASSUME NEW t \in Turns, TurnFits(t)
  PROVE  /\ Cardinality(InState(t, "running")) <= MaxParallel
         /\ \A k \in InState(t, "running"), i \in DOMAIN calls[t] :
              /\ i < k /\ ~IsParallel(t, k) => calls[t][i].state \in {"ok", "failed"}
              /\ i < k /\ ~IsParallel(t, i) => calls[t][i].state \in {"ok", "failed"}
<1>1. PICK b \in Nat \ {0} : BatchFrom(t, b)
  BY DEF TurnFits, OneBatch
<1>2. calls[t] \in Seq(Calls)
  BY DEF TurnFits, ShapeOf
<1>3. MaxParallel \in Nat /\ MaxParallel > 0
  BY Limits
<1>4. Cardinality(InState(t, "running")) <= MaxParallel
  <2>1. InState(t, "running") \subseteq b .. b + MaxParallel - 1
    <3>1. InState(t, "running") \subseteq Nat
      BY <1>2 DEF InState
    <3>2. QED
      BY <1>1, <1>3, <3>1 DEF BatchFrom
  <2>2. IsFiniteSet(b .. b + MaxParallel - 1) /\ Cardinality(b .. b + MaxParallel - 1) = MaxParallel
    <3>1. b \in Int /\ b + MaxParallel - 1 \in Int /\ (b + MaxParallel - 1) - b + 1 = MaxParallel /\ b <= b + MaxParallel - 1
      BY <1>3
    <3>2. QED
      BY <3>1, FS_Interval
  <2>3. Cardinality(InState(t, "running")) <= Cardinality(b .. b + MaxParallel - 1)
    BY <2>1, <2>2, FS_Subset
  <2>4. QED
    BY <2>2, <2>3
<1>5. ASSUME NEW k \in InState(t, "running"), NEW i \in DOMAIN calls[t], i < k, ~IsParallel(t, k) \/ ~IsParallel(t, i)
      PROVE  calls[t][i].state \in {"ok", "failed"}
  <2>1. k \in Nat /\ i \in Nat
    BY <1>2 DEF InState
  <2>2. b <= k /\ (k # b => \A j \in b .. k : IsParallel(t, j))
    BY <1>1 DEF BatchFrom
  <2>3. i < b
    BY <1>5, <2>1, <2>2
  <2>4. QED
    BY <1>1, <2>3 DEF BatchFrom, Over
<1>6. QED
  BY <1>4, <1>5

\* Tools with side effects run alone and in the order the model asked for.
THEOREM TurnActsInOrder == Spec => []SideEffectsInOrder
<1>1. TurnInv => SideEffectsInOrder
  BY BatchInOrder DEF TurnInv, SideEffectsInOrder
<1>2. QED
  BY <1>1, TurnInvInit, TurnInvStep, PTL DEF Spec

\* The loop ends by its limit, whatever the model asks for and the tools return.
THEOREM TurnLoopIsBounded == Spec => []LoopIsBounded
<1>1. ASSUME TurnInv, NEW t \in Turns
      PROVE  guard[t].rounds <= MaxRounds + 1 /\ (guard[t].stopped > 0 => guard[t].rounds <= guard[t].stopped + 1)
  <2>1. PICK g \in Guards : g = guard[t]
    BY <1>1 DEF TurnInv, TurnFits, ShapeOf
  <2>2. g.rounds \in Nat /\ g.stopped \in Nat /\ MaxRounds \in Nat
    BY Limits DEF Guards
  <2>3. /\ g.stopped = 0 => g.rounds < MaxRounds
        /\ g.stopped > 0 => g.stopped <= MaxRounds /\ g.rounds <= g.stopped + 1
    BY <1>1, <2>1 DEF TurnInv, TurnFits, Bounded
  <2>4. QED
    BY <2>1, <2>2, <2>3
<1>2. TurnInv => LoopIsBounded
  BY <1>1 DEF LoopIsBounded
<1>3. QED
  BY <1>2, TurnInvInit, TurnInvStep, PTL DEF Spec

\* A turn's usage record holds what the provider billed, or could not be had.
LEMMA ReplyIsPaid ==
  TurnInv /\ [Next]_vars =>
    [\A t \in Turns : pc[t] = "closing" /\ pc'[t] = "done" =>
       \/ row'[t] = billed[t]
       \/ "stream_options" \in dropped[t]
       \/ faults' > faults]_vars
<1> SUFFICES ASSUME TurnInv, Next, NEW t \in Turns, pc[t] = "closing", pc'[t] = "done"
             PROVE  row'[t] = billed[t] \/ "stream_options" \in dropped[t] \/ faults' > faults
  BY DEF vars
<1>1. TurnShape /\ TurnFits(t)
  BY DEF TurnInv
<1>2. ~Crash
  BY <1>1 DEF Crash, Live
<1>3. PICK u \in Turns : OneTurn(u)
  BY <1>2 DEF Next, OneTurn
<1>4. u = t
  <2>1. OnlyTurn(u)
    BY <1>1, <1>3, OneTurnFits DEF TurnInv
  <2>2. QED
    BY <1>1, <2>1, OthersLeft
<1>5. RecordUsage(t)
  <2>1. ~Prepares(t)
    BY <1>1, PreparesFields
  <2>2. ~Ends(t)
    BY <1>1, EndsFields
  <2>3. ~Ask(t) /\ ~Delta(t) /\ ~Rejected(t) /\ ~Failover(t) /\ ~Stopped(t) /\ ~SaveReply(t)
    BY DEF Ask, Delta, Rejected, Failover, Stopped, SaveReply
  <2>4. \A wanted \in Menu[t] \union {<<>>} : ~Complete(t, wanted)
    BY DEF Complete
  <2>5. ~ToolStep(t) /\ ~EndTools(t)
    BY DEF ToolStep, StartBatch, FinishTool, EndTools
  <2>6. ~PressStop(t)
    BY <1>1, PressStopFields
  <2>7. QED
    BY <1>3, <1>4, <2>1, <2>2, <2>3, <2>4, <2>5, <2>6 DEF OneTurn, Step, Prepares, Ends, ToolStep
<1>6. QED
  <2>1. row' = [row EXCEPT ![t] = counted[t]] \/ (faults < MaxFaults /\ faults' = faults + 1)
    BY <1>5 DEF RecordUsage
  <2>2. counted[t] = billed[t] \/ "stream_options" \in dropped[t]
    BY <1>1 DEF TurnFits, Accounted
  <2>3. CASE row' = [row EXCEPT ![t] = counted[t]]
    <3>1. row'[t] = counted[t]
      BY <1>1, <2>3 DEF TurnShape
    <3>2. QED
      BY <2>2, <3>1
  <2>4. CASE faults < MaxFaults /\ faults' = faults + 1
    <3>1. faults \in Nat
      BY DEF TurnInv
    <3>2. QED
      BY <2>4, <3>1
  <2>5. QED
    BY <2>1, <2>3, <2>4

\* Every answer that was billed is in the turn's usage record.
THEOREM TurnIsAccountedFor == Spec => NoReplyIsFree
BY ReplyIsPaid, TurnInvInit, TurnInvStep, PTL DEF Spec, NoReplyIsFree

\* The safety of a turn as a whole, for any number of turns, routes, tools and
\* faults: one voice, side effects in order, bounds kept, nothing unaccounted.
THEOREM TurnIsSafe == Spec => TurnSafety
BY TurnHasOneVoice, TurnActsInOrder, TurnLoopIsBounded, TurnIsAccountedFor, PTL DEF TurnSafety

-----------------------------------------------------------------------------
(***************************************************************************)
(* What is stored and sent.                                                *)
(***************************************************************************)

\* The least and the greatest of some numbers.
LEMMA MinOf ==
  ASSUME NEW T, T \subseteq Nat, T # {}
  PROVE  Min(T) \in T /\ \A y \in T : Min(T) <= y
BY LeastOf DEF Min

LEMMA MaxOf ==
  ASSUME NEW n \in Nat, NEW T, T \subseteq 0 .. n, T # {}
  PROVE  Max(T) \in T /\ \A y \in T : y <= Max(T)
<1> DEFINE U == {n - x : x \in T}
<1>0. \A x \in T : x \in Int /\ 0 <= x /\ x <= n
  OBVIOUS
<1>1. U \subseteq Nat /\ U # {}
  <2>1. \A x \in T : n - x \in Nat
    BY <1>0
  <2>2. PICK x : x \in T
    OBVIOUS
  <2>3. n - x \in U
    BY <2>2
  <2>4. QED
    BY <2>1, <2>3
<1>2. PICK u \in U : \A v \in U : u <= v
  <2> HIDE DEF U
  <2>1. QED
    BY <1>1, LeastOf
<1>3. PICK x \in T : u = n - x
  OBVIOUS
<1>4. \A y \in T : y <= x
  <2> SUFFICES ASSUME NEW y \in T PROVE y <= x
    OBVIOUS
  <2>1. n - x <= n - y
    BY <1>2, <1>3
  <2>2. x \in Int /\ y \in Int
    OBVIOUS
  <2>3. QED
    BY <2>1, <2>2
<1>5. \A y \in T : x >= y
  <2>1. T \subseteq Int
    OBVIOUS
  <2>2. QED
    BY <1>4, <2>1
<1>6. Max(T) \in T /\ \A y \in T : Max(T) >= y
  BY <1>5 DEF Max
<1>7. Max(T) \in Int /\ \A y \in T : y \in Int
  BY <1>0, <1>6
<1>8. QED
  BY <1>6, <1>7

\* The start of the current turn, from a user message on, is a user message.
LEMMA LastUserOf ==
  ASSUME NEW h \in Seq(Messages), NEW f \in 1 .. Len(h), IsUser(h, f)
  PROVE  /\ LastUser(h, f) \in f .. Len(h) /\ IsUser(h, LastUser(h, f))
         /\ \A i \in f .. Len(h) : IsUser(h, i) => i <= LastUser(h, f)
<1> DEFINE T == {f} \union {i \in f .. Len(h) : IsUser(h, i)}
<1>1. Len(h) \in Nat /\ T \subseteq 0 .. Len(h) /\ T # {}
  OBVIOUS
<1>2. LastUser(h, f) = Max(T)
  BY DEF LastUser
<1>3. LastUser(h, f) \in T /\ \A y \in T : y <= LastUser(h, f)
  <2> HIDE DEF T
  <2>1. QED
    BY <1>1, <1>2, MaxOf
<1>4. QED
  BY <1>3

\* What is kept of a history starts at a user message.
LEMMA KeepNewestOf ==
  ASSUME NEW h \in Seq(Messages), NEW f \in 1 .. Len(h), IsUser(h, f), NEW budget
  PROVE  /\ KeepNewest(h, f, budget) \in f .. Len(h) /\ IsUser(h, KeepNewest(h, f, budget))
<1> DEFINE last == LastUser(h, f)
           S == {i \in f .. Len(h) : i >= last \/ Tokens(h, i, Len(h)) <= budget}
           fit == Min(S)
           T == {i \in fit .. Len(h) : i >= last \/ IsUser(h, i)}
<1>1. last \in f .. Len(h) /\ IsUser(h, last) /\ Len(h) \in Nat /\ f \in Nat
  BY LastUserOf
<1> HIDE DEF last
<1>2. S \subseteq Nat /\ last \in S /\ S \subseteq f .. Len(h)
  BY <1>1
<1>3. fit \in S /\ \A y \in S : fit <= y
  <2> HIDE DEF S
  <2>1. QED
    BY <1>2, MinOf
<1>4. fit \in f .. Len(h) /\ fit <= last
  BY <1>2, <1>3
<1> HIDE DEF fit
<1>5. T \subseteq Nat /\ last \in T
  BY <1>1, <1>4
<1>6. Min(T) \in T /\ \A y \in T : Min(T) <= y
  <2> HIDE DEF T
  <2>1. QED
    BY <1>5, MinOf
<1>7. Min(T) \in f .. Len(h) /\ Min(T) <= last
  BY <1>1, <1>4, <1>5, <1>6
<1>8. IsUser(h, Min(T))
  <2>1. Min(T) >= last \/ IsUser(h, Min(T))
    BY <1>6
  <2>2. Min(T) >= last => Min(T) = last
    BY <1>1, <1>7
  <2> HIDE DEF T
  <2>3. QED
    BY <1>1, <2>1, <2>2
<1>9. KeepNewest(h, f, budget) = Min(T)
  BY DEF KeepNewest, T, fit, S, last
<1>10. QED
  BY <1>7, <1>8, <1>9

\* After a summary that ends before a user message, the rest begins with it.
LEMMA RecentOf ==
  ASSUME NEW h \in Seq(Messages), NEW upto \in Nat, upto < Len(h), IsUser(h, upto + 1)
  PROVE  Recent(h, upto) = upto + 1
<1> DEFINE T == {Len(h)} \union {i \in upto + 1 .. Len(h) : IsUser(h, i)}
<1>1. Len(h) \in Nat /\ T \subseteq Nat /\ upto + 1 \in T /\ \A i \in T : upto + 1 <= i
  OBVIOUS
<1>2. Min(T) \in T /\ \A y \in T : Min(T) <= y
  <2> HIDE DEF T
  <2>1. QED
    BY <1>1, MinOf
<1>3. Min(T) = upto + 1
  <2> HIDE DEF T
  <2>1. Min(T) <= upto + 1 /\ upto + 1 <= Min(T) /\ Min(T) \in Nat
    BY <1>1, <1>2
  <2>2. QED
    BY <2>1
<1>4. Recent(h, upto) = Min(T)
  BY <1>1 DEF Recent
<1>5. QED
  BY <1>3, <1>4

\* From a user message on, whatever the trimming leaves begins with one.
LEMMA TrimOf ==
  ASSUME NEW h \in Seq(Messages), NEW f \in 1 .. Len(h), IsUser(h, f)
  PROVE  /\ CutPoint(h, f) \in f .. Len(h) /\ IsUser(h, CutPoint(h, f))
         /\ Trim(h, f) \in f .. Len(h) /\ IsUser(h, Trim(h, f))
         /\ Unfolded(h, f) \in f .. Len(h) /\ IsUser(h, Unfolded(h, f))
<1>1. CutPoint(h, f) \in f .. Len(h) /\ IsUser(h, CutPoint(h, f))
  BY KeepNewestOf DEF CutPoint
<1>2. f \in f .. Len(h)
  OBVIOUS
<1>3. Trim(h, f) \in f .. Len(h) /\ IsUser(h, Trim(h, f))
  BY <1>2, KeepNewestOf DEF Trim
<1>4. Unfolded(h, f) \in f .. Len(h) /\ IsUser(h, Unfolded(h, f))
  BY <1>2, <1>3 DEF Unfolded
<1>5. QED
  BY <1>1, <1>3, <1>4

-----------------------------------------------------------------------------
\* A summary stands for the messages before a user message of h.
BoundaryOf(h, s) ==
  /\ s \in Summaries /\ s.covers = 1 .. s.upto
  /\ s.upto > 0 => s.upto < Len(h) /\ IsUser(h, s.upto + 1)

Sendings == [first : Nat, covers : SUBSET Nat, trimmed : BOOLEAN]

\* What was sent starts at a user message, and a summary covers the rest.
SentOf(h, r) ==
  /\ r \in Sendings
  /\ r.first # 0 => r.first \in 1 .. Len(h) /\ IsUser(h, r.first)
  /\ r.first # 0 /\ ~r.trimmed => 1 .. r.first - 1 \subseteq r.covers

\* A history that is added to.
LEMMA Grows ==
  ASSUME NEW h \in Seq(Messages), NEW s \in Seq(Messages)
  PROVE  /\ h \o s \in Seq(Messages) /\ Len(h \o s) = Len(h) + Len(s)
         /\ \A i \in 1 .. Len(h) : (h \o s)[i] = h[i]
         /\ \A i \in 1 .. Len(s) : (h \o s)[Len(h) + i] = s[i]
         /\ Len(h) \in Nat /\ Len(s) \in Nat
OBVIOUS

LEMMA BoundaryGrows ==
  ASSUME NEW h \in Seq(Messages), NEW s \in Seq(Messages), NEW b, BoundaryOf(h, b)
  PROVE  BoundaryOf(h \o s, b)
<1>1. PICK g \in Seq(Messages) : g = h \o s
  BY Grows
<1>2. Len(h) \in Nat /\ Len(g) \in Nat /\ Len(h) <= Len(g) /\ \A i \in 1 .. Len(h) : g[i] = h[i]
  BY <1>1, Grows
<1>3. b.upto \in Nat
  BY DEF BoundaryOf, Summaries
<1>4. b.upto > 0 => b.upto < Len(g) /\ IsUser(g, b.upto + 1)
  <2> SUFFICES ASSUME b.upto > 0 PROVE b.upto < Len(g) /\ IsUser(g, b.upto + 1)
    OBVIOUS
  <2>1. b.upto < Len(h) /\ IsUser(h, b.upto + 1)
    BY DEF BoundaryOf
  <2>2. b.upto + 1 \in 1 .. Len(h)
    BY <1>2, <1>3, <2>1
  <2>3. b.upto < Len(g) /\ g[b.upto + 1] = h[b.upto + 1]
    BY <1>2, <1>3, <2>1, <2>2
  <2>4. QED
    BY <2>1, <2>3 DEF IsUser
<1>5. BoundaryOf(g, b)
  BY <1>4 DEF BoundaryOf
<1>6. QED
  BY <1>1, <1>5

LEMMA SentGrows ==
  ASSUME NEW h \in Seq(Messages), NEW s \in Seq(Messages), NEW r, SentOf(h, r)
  PROVE  SentOf(h \o s, r)
<1>1. PICK g \in Seq(Messages) : g = h \o s
  BY Grows
<1>2. Len(h) \in Nat /\ Len(g) \in Nat /\ Len(h) <= Len(g) /\ \A i \in 1 .. Len(h) : g[i] = h[i]
  BY <1>1, Grows
<1>3. SentOf(g, r)
  BY <1>2 DEF SentOf, IsUser
<1>4. QED
  BY <1>1, <1>3

\* Pairs stay pairs when whole pairs are added.
LEMMA PairedGrows ==
  ASSUME NEW h \in Seq(Messages), NEW s \in Seq(Messages), Paired(h), Paired(s)
  PROVE  Paired(h \o s)
<1> DEFINE n == Len(h)
           m == Len(s)
<1>1. PICK g \in Seq(Messages) : g = h \o s
  BY Grows
<1>2. /\ n \in Nat /\ m \in Nat /\ Len(g) = n + m /\ DOMAIN g = 1 .. n + m /\ DOMAIN h = 1 .. n /\ DOMAIN s = 1 .. m
      /\ \A i \in 1 .. n : g[i] = h[i]
      /\ \A i \in 1 .. m : g[n + i] = s[i]
  BY <1>1, Grows
<1> HIDE DEF n, m
<1>3. ASSUME NEW i \in 1 .. n, IsCall(g, i)
      PROVE  \E j \in i + 1 .. n + m : IsOutput(g, j) /\ SameCall(g, i, j) /\ \A k \in i .. j : ~IsUser(g, k)
  <2>1. PICK j \in i + 1 .. n : IsOutput(h, j) /\ SameCall(h, i, j) /\ \A k \in i .. j : ~IsUser(h, k)
    BY <1>2, <1>3 DEF Paired, IsCall, n
  <2>2. j \in i + 1 .. n + m /\ j \in 1 .. n /\ \A k \in i .. j : k \in 1 .. n
    BY <1>2
  <2>3. IsOutput(g, j) /\ SameCall(g, i, j) /\ \A k \in i .. j : ~IsUser(g, k)
    BY <1>2, <2>1, <2>2 DEF IsOutput, SameCall, IsUser
  <2>4. QED
    BY <2>2, <2>3
<1>4. ASSUME NEW a \in 1 .. m, IsCall(g, n + a)
      PROVE  \E j \in n + a + 1 .. n + m : IsOutput(g, j) /\ SameCall(g, n + a, j) /\ \A k \in n + a .. j : ~IsUser(g, k)
  <2>1. PICK b \in a + 1 .. m : IsOutput(s, b) /\ SameCall(s, a, b) /\ \A k \in a .. b : ~IsUser(s, k)
    BY <1>2, <1>4 DEF Paired, IsCall, m
  <2>2. n + b \in n + a + 1 .. n + m /\ b \in 1 .. m
    BY <1>2
  <2>3. ASSUME NEW k \in n + a .. n + b PROVE ~IsUser(g, k)
    <3>1. k - n \in a .. b /\ k - n \in 1 .. m /\ n + (k - n) = k
      BY <1>2
    <3>2. QED
      BY <1>2, <2>1, <3>1 DEF IsUser
  <2>4. IsOutput(g, n + b) /\ SameCall(g, n + a, n + b)
    BY <1>2, <2>1, <2>2 DEF IsOutput, SameCall
  <2>5. QED
    BY <2>2, <2>3, <2>4
<1>5. ASSUME NEW j \in 1 .. n, IsOutput(g, j)
      PROVE  \E i \in 1 .. j - 1 : IsCall(g, i) /\ SameCall(g, i, j) /\ \A k \in i .. j : ~IsUser(g, k)
  <2>1. PICK i \in 1 .. j - 1 : IsCall(h, i) /\ SameCall(h, i, j) /\ \A k \in i .. j : ~IsUser(h, k)
    BY <1>2, <1>5 DEF Paired, IsOutput, n
  <2>2. i \in 1 .. n /\ \A k \in i .. j : k \in 1 .. n
    BY <1>2
  <2>3. IsCall(g, i) /\ SameCall(g, i, j) /\ \A k \in i .. j : ~IsUser(g, k)
    BY <1>2, <2>1, <2>2 DEF IsCall, SameCall, IsUser
  <2>4. QED
    BY <2>2, <2>3
<1>6. ASSUME NEW b \in 1 .. m, IsOutput(g, n + b)
      PROVE  \E i \in 1 .. n + b - 1 : IsCall(g, i) /\ SameCall(g, i, n + b) /\ \A k \in i .. n + b : ~IsUser(g, k)
  <2>1. PICK a \in 1 .. b - 1 : IsCall(s, a) /\ SameCall(s, a, b) /\ \A k \in a .. b : ~IsUser(s, k)
    BY <1>2, <1>6 DEF Paired, IsOutput, m
  <2>2. n + a \in 1 .. n + b - 1 /\ a \in 1 .. m
    BY <1>2
  <2>3. ASSUME NEW k \in n + a .. n + b PROVE ~IsUser(g, k)
    <3>1. k - n \in a .. b /\ k - n \in 1 .. m /\ n + (k - n) = k
      BY <1>2
    <3>2. QED
      BY <1>2, <2>1, <3>1 DEF IsUser
  <2>4. IsCall(g, n + a) /\ SameCall(g, n + a, n + b)
    BY <1>2, <2>1, <2>2 DEF IsCall, SameCall
  <2>5. QED
    BY <2>2, <2>3, <2>4
<1>7. \A i \in DOMAIN g : i \in 1 .. n \/ \E a \in 1 .. m : i = n + a
  <2> SUFFICES ASSUME NEW i \in 1 .. n + m, i \notin 1 .. n PROVE \E a \in 1 .. m : i = n + a
    BY <1>2
  <2>1. i - n \in 1 .. m /\ i = n + (i - n)
    BY <1>2
  <2>2. QED
    BY <2>1
<1>8. Paired(g)
  <2>1. ASSUME NEW i \in DOMAIN g, IsCall(g, i)
        PROVE  \E j \in i + 1 .. Len(g) : IsOutput(g, j) /\ SameCall(g, i, j) /\ \A k \in i .. j : ~IsUser(g, k)
    BY <1>2, <1>3, <1>4, <1>7, <2>1
  <2>2. ASSUME NEW j \in DOMAIN g, IsOutput(g, j)
        PROVE  \E i \in 1 .. j - 1 : IsCall(g, i) /\ SameCall(g, i, j) /\ \A k \in i .. j : ~IsUser(g, k)
    <3>1. CASE j \in 1 .. n
      BY <1>5, <2>2, <3>1
    <3>2. ASSUME NEW c \in 1 .. m, j = n + c
          PROVE  \E i \in 1 .. j - 1 : IsCall(g, i) /\ SameCall(g, i, j) /\ \A k \in i .. j : ~IsUser(g, k)
      <4>1. n \in Nat /\ c \in Nat /\ j \in Nat
        BY <1>2, <3>2
      <4>2. IsOutput(g, n + c)
        BY <2>2, <3>2
      <4>3. PICK i \in 1 .. n + c - 1 : IsCall(g, i) /\ SameCall(g, i, n + c) /\ \A k \in i .. n + c : ~IsUser(g, k)
        BY <1>6, <4>2
      <4>4. i \in 1 .. j - 1
        BY <3>2, <4>1
      <4>5. SameCall(g, i, j) /\ \A k \in i .. j : ~IsUser(g, k)
        BY <3>2, <4>1, <4>3
      <4>6. QED
        BY <4>3, <4>4, <4>5
    <3>3. QED
      BY <1>7, <3>1, <3>2
  <2>3. QED
    BY <2>1, <2>2 DEF Paired
<1>9. QED
  BY <1>1, <1>8

\* A message that is no part of a pair.
LEMMA PairedOne ==
  ASSUME NEW e \in Messages, e.role \in {"user", "assistant"}
  PROVE  <<e>> \in Seq(Messages) /\ Paired(<<e>>)
<1>1. <<e>> \in Seq(Messages) /\ DOMAIN <<e>> = {1} /\ <<e>>[1] = e
  OBVIOUS
<1>2. QED
  BY <1>1 DEF Paired, IsCall, IsOutput

\* All calls and then all results are pairs.
LEMMA PairedBlock ==
  ASSUME NEW t \in Turns, NEW n \in Nat, NEW r \in Nat
  PROVE  LET id(k) == <<r, k>>
             block == [k \in 1 .. n |-> Message("tool_call", t, id(k))] \o [k \in 1 .. n |-> Message("tool_call_output", t, id(k))]
         IN  /\ block \in Seq(Messages) /\ Paired(block)
             /\ \A k \in DOMAIN block : ~IsUser(block, k)
<1> DEFINE a == [k \in 1 .. n |-> Message("tool_call", t, <<r, k>>)]
           b == [k \in 1 .. n |-> Message("tool_call_output", t, <<r, k>>)]
<1>1. \A k \in 1 .. n : <<r, k>> \in CallId /\ Message("tool_call", t, <<r, k>>) \in Messages
                        /\ Message("tool_call_output", t, <<r, k>>) \in Messages
  BY DEF Messages, Message, CallId, Roles
<1>2. /\ a \in Seq(Messages) /\ b \in Seq(Messages) /\ Len(a) = n /\ Len(b) = n
      /\ \A k \in 1 .. n : /\ a[k].role = "tool_call" /\ a[k].turn = t /\ a[k].call = <<r, k>>
                           /\ b[k].role = "tool_call_output" /\ b[k].turn = t /\ b[k].call = <<r, k>>
  <2>1. a \in Seq(Messages) /\ b \in Seq(Messages)
    BY <1>1
  <2>2. DOMAIN a = 1 .. n /\ DOMAIN b = 1 .. n
    OBVIOUS
  <2>3. Len(a) = n /\ Len(b) = n
    BY <2>1, <2>2
  <2>4. QED
    BY <2>1, <2>3 DEF Message
<1> HIDE DEF a, b
<1>3. PICK g \in Seq(Messages) : g = a \o b
  BY <1>2, Grows
<1>4. /\ Len(g) = n + n /\ DOMAIN g = 1 .. n + n
      /\ \A k \in 1 .. n : /\ g[k].role = "tool_call" /\ g[k].turn = t /\ g[k].call = <<r, k>>
                           /\ g[n + k].role = "tool_call_output" /\ g[n + k].turn = t /\ g[n + k].call = <<r, k>>
  <2>0. a \in Seq(Messages) /\ b \in Seq(Messages) /\ Len(a) = n /\ Len(b) = n
    BY <1>2
  <2>1. Len(g) = n + n
    <3>1. Len(a \o b) = Len(a) + Len(b)
      BY <2>0, Grows, Zenon
    <3>2. QED
      BY <1>3, <2>0, <3>1
  <2>2. \A k \in 1 .. n : g[k] = a[k] /\ g[n + k] = b[k]
    <3>1. /\ \A k \in 1 .. Len(a) : (a \o b)[k] = a[k]
          /\ \A k \in 1 .. Len(b) : (a \o b)[Len(a) + k] = b[k]
      BY <2>0, Grows, Zenon
    <3>2. QED
      BY <1>3, <2>0, <3>1
  <2>3. QED
    <3>1. DOMAIN g = 1 .. n + n
      BY <2>1
    <3>2. QED
      BY <1>2, <2>1, <2>2, <3>1
<1>5. \A i \in 1 .. n + n : i \in 1 .. n \/ (i - n \in 1 .. n /\ i = n + (i - n))
  OBVIOUS
<1>6. \A k \in 1 .. n + n : ~IsUser(g, k)
  BY <1>4, <1>5 DEF IsUser
<1>7. ASSUME NEW i \in DOMAIN g, IsCall(g, i)
      PROVE  \E j \in i + 1 .. Len(g) : IsOutput(g, j) /\ SameCall(g, i, j) /\ \A k \in i .. j : ~IsUser(g, k)
  <2>1. i \in 1 .. n
    BY <1>4, <1>5, <1>7 DEF IsCall
  <2>2. n + i \in i + 1 .. Len(g) /\ \A k \in i .. n + i : k \in 1 .. n + n
    BY <1>4, <2>1
  <2>3. IsOutput(g, n + i) /\ SameCall(g, i, n + i)
    BY <1>4, <2>1 DEF IsOutput, SameCall
  <2>4. QED
    BY <1>6, <2>2, <2>3
<1>8. ASSUME NEW j \in DOMAIN g, IsOutput(g, j)
      PROVE  \E i \in 1 .. j - 1 : IsCall(g, i) /\ SameCall(g, i, j) /\ \A k \in i .. j : ~IsUser(g, k)
  <2>1. j - n \in 1 .. n /\ j = n + (j - n)
    BY <1>4, <1>5, <1>8 DEF IsOutput
  <2>2. PICK i \in 1 .. n : j = n + i
    BY <2>1
  <2>3. i \in 1 .. j - 1 /\ \A k \in i .. j : k \in 1 .. n + n
    BY <1>4, <2>2
  <2>4. IsCall(g, i) /\ SameCall(g, i, j)
    BY <1>4, <2>2 DEF IsCall, SameCall
  <2>5. QED
    BY <1>6, <2>3, <2>4
<1>9. Paired(g)
  BY <1>7, <1>8 DEF Paired
<1>10. QED
  BY <1>3, <1>4, <1>6, <1>9 DEF a, b

-----------------------------------------------------------------------------
(***************************************************************************)
(* What is kept of the stored chat, its summary and what a turn has read.  *)
(***************************************************************************)
StoreWhole == store \in Seq(Messages) /\ (store # <<>> => IsUser(store, 1)) /\ Paired(store)

\* Before its question is stored a turn has none; after that the chat has one.
QuestionOf(t) ==
  /\ pc[t] = "idle" => route[t] = 1
  /\ pc[t] = "idle" \/ (pc[t] = "store" /\ route[t] = 1) =>
       \A i \in DOMAIN store : ~(IsUser(store, i) /\ store[i].turn = t)
  /\ pc[t] \in {"load", "recall", "summarize", "ask", "stream", "reply", "tools"} \/ (pc[t] = "store" /\ route[t] # 1) =>
       store # <<>>

ContextOf(t) ==
  /\ seen[t] \in 0 .. Len(store)
  /\ BoundaryOf(store, base[t]) /\ SentOf(store, sent[t])
  /\ pc[t] \in {"recall", "summarize"} => seen[t] > 0
  /\ pc[t] = "summarize" => base[t].upto < seen[t]

HistInv ==
  /\ asked \in Asked /\ faults \in 0 .. MaxFaults /\ crashes \in 0 .. MaxCrashes
  /\ seen \in [Turns -> Nat] /\ base \in [Turns -> Summaries] /\ sent \in [Turns -> Sendings]
  /\ StoreWhole /\ InputStoredOnce /\ BoundaryOf(store, summary)
  /\ \A t \in Turns : QuestionOf(t) /\ ContextOf(t)

\* One message more.
LEMMA OneMore ==
  ASSUME NEW h \in Seq(Messages), NEW e \in Messages
  PROVE  Append(h, e) = h \o <<e>>
OBVIOUS

\* What a step adds to the chat: a turn's question, or no question.
Question(t) == <<Message("user", t, <<0, 0>>)>>
Unasked(s) == s \in Seq(Messages) /\ Paired(s) /\ \A k \in DOMAIN s : ~IsUser(s, k)

LEMMA ReplyAdded ==
  ASSUME store \in Seq(Messages), NEW t \in Turns, KeepReply(t)
  PROVE  store' = store \/ \E s : Unasked(s) /\ store' = store \o s
<1> DEFINE e == Message("assistant", t, <<0, 0>>)
<1>1. e \in Messages /\ e.role = "assistant"
  BY DEF Message, Messages, Roles, CallId
<1>2. store' = store \/ store' = store \o <<e>>
  BY <1>1, OneMore DEF KeepReply
<1>3. Unasked(<<e>>)
  <2> HIDE DEF e
  <2>1. <<e>> \in Seq(Messages) /\ Paired(<<e>>)
    BY <1>1, PairedOne
  <2>2. DOMAIN <<e>> = {1} /\ <<e>>[1] = e
    OBVIOUS
  <2>3. QED
    BY <1>1, <2>1, <2>2 DEF Unasked, IsUser
<1>4. QED
  BY <1>2, <1>3

LEMMA RoundAdded ==
  ASSUME TurnInv, store \in Seq(Messages), NEW t \in Turns, EndTools(t)
  PROVE  \E s : Unasked(s) /\ store' = store \o s
<1>1. PICK q \in Seq(Calls) : q = calls[t]
  BY DEF TurnInv, TurnShape
<1>2. PICK n \in Nat : DOMAIN q = 1 .. n
  OBVIOUS
<1>3. PICK g \in Guards : g = guard[t]
  BY DEF TurnInv, TurnShape
<1>4. PICK r \in Nat : r = g.rounds + 1
  BY DEF Guards
<1> DEFINE a == [k \in 1 .. n |-> Message("tool_call", t, <<r, k>>)]
           b == [k \in 1 .. n |-> Message("tool_call_output", t, <<r, k>>)]
<1>5. Stored(t) = a \o b
  BY <1>1, <1>2, <1>3, <1>4, Zenon DEF Stored
<1>6. Unasked(a \o b)
  BY PairedBlock DEF Unasked
<1>7. store' = store \o Stored(t)
  BY DEF EndTools
<1>8. QED
  BY <1>5, <1>6, <1>7

LEMMA StoreSteps ==
  ASSUME TurnInv, store \in Seq(Messages), NEW t \in Turns, OneTurn(t)
  PROVE  \/ store' = store /\ (pc[t] = "store" /\ route[t] = 1 => pc'[t] # "load")
         \/ pc[t] = "store" /\ route[t] = 1 /\ pc'[t] = "load" /\ store' = store \o Question(t)
         \/ pc[t] \in {"stream", "reply", "tools"} /\ \E s : Unasked(s) /\ store' = store \o s
<1>0. pc \in [Turns -> Labels]
  BY DEF TurnInv, TurnShape
<1>1. CASE Begin(t) \/ Load(t) \/ SummaryFails(t)
  BY <1>1 DEF Begin, Load, SummaryFails, db
<1>2. CASE Recall(t) \/ Summarize(t)
  BY <1>2, Zenon DEF Recall, Summarize, db
<1>3. CASE SaveInput(t)
  <2>1. Message("user", t, <<0, 0>>) \in Messages
    BY DEF Message, Messages, Roles, CallId
  <2>2. pc[t] = "store" /\ store' = IF route[t] = 1 THEN Append(store, Message("user", t, <<0, 0>>)) ELSE store
    BY <1>3 DEF SaveInput
  <2>3. pc'[t] = "load"
    BY <1>3 DEF SaveInput, Goto, TurnInv, TurnShape
  <2>4. QED
    BY <2>1, <2>2, <2>3, OneMore DEF Question
<1>4. CASE LeaveLoop(t) \/ Ask(t) \/ Delta(t) \/ Rejected(t) \/ Failover(t) \/ StreamFails(t)
  BY <1>4 DEF LeaveLoop, Ask, Delta, Rejected, Failover, StreamFails, db
<1>5. CASE Stopped(t) \/ SaveReply(t)
  <2>1. pc[t] \in {"stream", "reply"} /\ (store' = store \/ KeepReply(t))
    BY <1>5, Zenon DEF Stopped, SaveReply
  <2>2. QED
    BY <2>1, ReplyAdded
<1>6. ASSUME NEW wanted \in Menu[t] \union {<<>>}, Complete(t, wanted) PROVE store' = store /\ pc[t] = "stream"
  BY <1>6 DEF Complete, db
<1>7. CASE StartBatch(t) \/ FinishTool(t) \/ PressStop(t) \/ DbFails(t) \/ RecordUsage(t)
  BY <1>0, <1>7 DEF StartBatch, FinishTool, PressStop, DbFails, RecordUsage, End, Goto, db
<1>8. CASE EndTools(t)
  BY <1>8, RoundAdded DEF EndTools
<1>9. QED
  BY <1>1, <1>2, <1>3, <1>4, <1>5, <1>6, <1>7, <1>8 DEF OneTurn, Step

\* Whatever is added, the chat stays whole and what was known of it stays true.
LEMMA StoreGrows ==
  ASSUME StoreWhole, NEW s \in Seq(Messages), Paired(s), store # <<>> \/ (s # <<>> /\ IsUser(s, 1)), store' = store \o s
  PROVE  /\ StoreWhole'
         /\ \A b : BoundaryOf(store, b) => BoundaryOf(store', b)
         /\ \A r : SentOf(store, r) => SentOf(store', r)
         /\ Len(store') = Len(store) + Len(s)
         /\ \A i \in DOMAIN store : store'[i] = store[i]
         /\ \A i \in DOMAIN store' : i \in DOMAIN store \/ \E k \in DOMAIN s : i = Len(store) + k /\ store'[i] = s[k]
<1>1. PICK h \in Seq(Messages) : h = store
  BY DEF StoreWhole
<1>2. PICK g \in Seq(Messages) : g = h \o s
  BY Grows
<1>3. /\ Len(g) = Len(h) + Len(s) /\ Len(h) \in Nat /\ Len(s) \in Nat
      /\ \A i \in 1 .. Len(h) : g[i] = h[i]
      /\ \A i \in 1 .. Len(s) : g[Len(h) + i] = s[i]
  BY <1>2, Grows
<1>4. Paired(g)
  BY <1>1, <1>2, PairedGrows DEF StoreWhole
<1>5. IsUser(g, 1)
  <2>1. CASE h # <<>>
    <3>1. 1 \in 1 .. Len(h)
      BY <2>1
    <3>2. QED
      BY <1>1, <1>3, <2>1, <3>1 DEF StoreWhole, IsUser
  <2>2. CASE h = <<>>
    <3>1. s # <<>> /\ IsUser(s, 1) /\ Len(h) = 0
      BY <1>1, <2>2
    <3>2. 1 \in 1 .. Len(s) /\ Len(h) + 1 = 1
      BY <3>1
    <3>3. g[1] = s[1]
      BY <1>3, <3>2
    <3>4. QED
      BY <3>1, <3>3 DEF IsUser
  <2>3. QED
    BY <2>1, <2>2
<1>6. \A i \in DOMAIN g : i \in DOMAIN h \/ \E k \in DOMAIN s : i = Len(h) + k /\ g[i] = s[k]
  <2> SUFFICES ASSUME NEW i \in DOMAIN g, i \notin DOMAIN h PROVE \E k \in DOMAIN s : i = Len(h) + k /\ g[i] = s[k]
    OBVIOUS
  <2>1. i \in 1 .. Len(h) + Len(s) /\ i \notin 1 .. Len(h)
    BY <1>3
  <2>2. i - Len(h) \in 1 .. Len(s) /\ i = Len(h) + (i - Len(h))
    BY <1>3, <2>1
  <2>3. g[i] = s[i - Len(h)]
    BY <1>3, <2>2
  <2>4. QED
    BY <2>2, <2>3
<1>7. /\ \A b : BoundaryOf(h, b) => BoundaryOf(g, b)
      /\ \A r : SentOf(h, r) => SentOf(g, r)
  BY <1>2, BoundaryGrows, SentGrows
<1>8. store' = g
  BY <1>1, <1>2
<1>9. QED
  BY <1>1, <1>3, <1>4, <1>5, <1>6, <1>7, <1>8 DEF StoreWhole

\* So it is after every step.
StoreMoved(t) ==
  /\ StoreWhole'
  /\ \A b : BoundaryOf(store, b) => BoundaryOf(store', b)
  /\ \A r : SentOf(store, r) => SentOf(store', r)
  /\ Len(store') \in Nat /\ Len(store) <= Len(store') /\ (store # <<>> => store' # <<>>)
  /\ \A i \in DOMAIN store : i \in DOMAIN store' /\ store'[i] = store[i]
  /\ \A i \in DOMAIN store' : IsUser(store', i) =>
       i \in DOMAIN store \/ (store'[i].turn = t /\ i = Len(store) + 1 /\ pc[t] = "store" /\ route[t] = 1)
  /\ pc[t] = "store" /\ route[t] = 1 /\ pc'[t] = "load" => store' # <<>>

LEMMA StoreMoves ==
  ASSUME TurnInv, HistInv, NEW t \in Turns, OneTurn(t)
  PROVE  StoreMoved(t)
<1>0. StoreWhole /\ store \in Seq(Messages) /\ QuestionOf(t) /\ Len(store) \in Nat /\ DOMAIN store = 1 .. Len(store)
  <2>1. StoreWhole /\ store \in Seq(Messages) /\ QuestionOf(t)
    BY DEF HistInv, StoreWhole
  <2>2. QED
    BY <2>1
<1>1. CASE store' = store /\ (pc[t] = "store" /\ route[t] = 1 => pc'[t] # "load")
  BY <1>0, <1>1 DEF StoreMoved, StoreWhole, Paired, IsUser, IsCall, IsOutput, SameCall
<1>2. CASE pc[t] = "store" /\ route[t] = 1 /\ pc'[t] = "load" /\ store' = store \o Question(t)
  <2> DEFINE e == Message("user", t, <<0, 0>>)
  <2>1. e \in Messages /\ e.role = "user" /\ e.turn = t
    BY DEF Message, Messages, Roles, CallId
  <2> HIDE DEF e
  <2>2. Question(t) = <<e>>
    BY DEF Question, e
  <2>3. <<e>> \in Seq(Messages) /\ Paired(<<e>>)
    BY <2>1, PairedOne
  <2>4. Len(<<e>>) = 1 /\ DOMAIN <<e>> = {1} /\ <<e>>[1] = e /\ <<e>> # <<>>
    OBVIOUS
  <2>5. IsUser(<<e>>, 1)
    BY <2>1, <2>4 DEF IsUser
  <2>6. store' = store \o <<e>>
    BY <1>2, <2>2
  <2>7. /\ StoreWhole'
        /\ \A b : BoundaryOf(store, b) => BoundaryOf(store', b)
        /\ \A r : SentOf(store, r) => SentOf(store', r)
        /\ Len(store') = Len(store) + Len(<<e>>)
        /\ \A i \in DOMAIN store : store'[i] = store[i]
        /\ \A i \in DOMAIN store' : i \in DOMAIN store \/ \E k \in DOMAIN <<e>> : i = Len(store) + k /\ store'[i] = <<e>>[k]
    BY <1>0, <2>3, <2>4, <2>5, <2>6, StoreGrows
  <2>8. store' \in Seq(Messages)
    BY <2>7 DEF StoreWhole
  <2>9. Len(store') = Len(store) + 1 /\ DOMAIN store' = 1 .. Len(store) + 1 /\ store' # <<>>
    BY <1>0, <2>4, <2>7, <2>8
  <2>10. \A i \in DOMAIN store' : i \in DOMAIN store \/ (i = Len(store) + 1 /\ store'[i].turn = t)
    BY <2>1, <2>4, <2>7
  <2>11. \A i \in DOMAIN store : i \in DOMAIN store'
    BY <1>0, <2>9
  <2>12. Len(store') \in Nat /\ Len(store) <= Len(store')
    BY <1>0, <2>9
  <2>13. QED
    BY <1>2, <2>7, <2>9, <2>10, <2>11, <2>12, Zenon DEF StoreMoved
<1>3. ASSUME pc[t] \in {"stream", "reply", "tools"}, NEW s, Unasked(s), store' = store \o s PROVE StoreMoved(t)
  <2>1. s \in Seq(Messages) /\ Paired(s) /\ \A k \in DOMAIN s : ~IsUser(s, k)
    BY <1>3 DEF Unasked
  <2>2. store # <<>>
    BY <1>0, <1>3 DEF QuestionOf
  <2>3. /\ StoreWhole'
        /\ \A b : BoundaryOf(store, b) => BoundaryOf(store', b)
        /\ \A r : SentOf(store, r) => SentOf(store', r)
        /\ Len(store') = Len(store) + Len(s)
        /\ \A i \in DOMAIN store : store'[i] = store[i]
        /\ \A i \in DOMAIN store' : i \in DOMAIN store \/ \E k \in DOMAIN s : i = Len(store) + k /\ store'[i] = s[k]
    BY <1>0, <1>3, <2>1, <2>2, StoreGrows
  <2>4. store' \in Seq(Messages) /\ Len(s) \in Nat
    BY <2>1, <2>3 DEF StoreWhole
  <2>5. Len(store') \in Nat /\ Len(store) <= Len(store') /\ DOMAIN store' = 1 .. Len(store')
    BY <1>0, <2>3, <2>4
  <2>6. \A i \in DOMAIN store : i \in DOMAIN store'
    BY <1>0, <2>5
  <2>7. \A i \in DOMAIN store' : IsUser(store', i) => i \in DOMAIN store
    BY <2>1, <2>3 DEF IsUser
  <2>8. store' # <<>>
    <3>1. Len(store) # 0
      BY <1>0, <2>2
    <3>2. Len(store') # 0
      BY <1>0, <2>5, <3>1
    <3>3. QED
      BY <3>2
  <2>9. pc[t] # "store"
    BY <1>3
  <2>10. QED
    BY <2>3, <2>5, <2>6, <2>7, <2>8, <2>9, Zenon DEF StoreMoved
<1>4. QED
  BY <1>0, <1>1, <1>2, <1>3, StoreSteps

\* What one turn adds is no question of another, and none of its own twice.
LEMMA QuestionsKept ==
  ASSUME TurnInv, HistInv, NEW t \in Turns, OneTurn(t)
  PROVE  InputStoredOnce' /\ \A u \in Turns : u # t => QuestionOf(u)'
<1>0. StoreMoved(t) /\ QuestionOf(t) /\ TurnShape /\ OnlyTurn(t) /\ InputStoredOnce
  BY StoreMoves, OneTurnFits DEF HistInv, TurnInv
<1>1. \A i \in DOMAIN store : i \in DOMAIN store' /\ store'[i] = store[i]
  BY <1>0 DEF StoreMoved
<1>2. \A i \in DOMAIN store' : IsUser(store', i) =>
        i \in DOMAIN store \/ (store'[i].turn = t /\ i = Len(store) + 1 /\ pc[t] = "store" /\ route[t] = 1)
  BY <1>0 DEF StoreMoved
<1>3. pc[t] = "store" /\ route[t] = 1 => \A i \in DOMAIN store : ~(IsUser(store, i) /\ store[i].turn = t)
  BY <1>0 DEF QuestionOf
<1>4. InputStoredOnce'
  <2> SUFFICES ASSUME NEW i \in DOMAIN store', NEW j \in DOMAIN store',
                      store'[i].turn # "past", IsUser(store', i), IsUser(store', j), store'[i].turn = store'[j].turn
               PROVE  i = j
    BY DEF InputStoredOnce
  <2>1. CASE i \in DOMAIN store /\ j \in DOMAIN store
    BY <1>0, <1>1, <2>1 DEF InputStoredOnce, IsUser
  <2>2. CASE i \notin DOMAIN store /\ j \notin DOMAIN store
    BY <1>2, <2>2
  <2>3. CASE i \in DOMAIN store /\ j \notin DOMAIN store
    BY <1>1, <1>2, <1>3, <2>3 DEF IsUser
  <2>4. CASE i \notin DOMAIN store /\ j \in DOMAIN store
    BY <1>1, <1>2, <1>3, <2>4 DEF IsUser
  <2>5. QED
    BY <2>1, <2>2, <2>3, <2>4
<1>5. ASSUME NEW u \in Turns, u # t PROVE QuestionOf(u)'
  <2>1. pc'[u] = pc[u] /\ route'[u] = route[u]
    BY <1>0, <1>5, OthersLeft DEF SameTurn
  <2>2. QuestionOf(u)
    BY DEF HistInv
  <2>3. store # <<>> => store' # <<>>
    BY <1>0 DEF StoreMoved
  <2>4. ASSUME \A i \in DOMAIN store : ~(IsUser(store, i) /\ store[i].turn = u)
        PROVE  \A i \in DOMAIN store' : ~(IsUser(store', i) /\ store'[i].turn = u)
    BY <1>1, <1>2, <1>5, <2>4 DEF IsUser
  <2>5. QED
    BY <2>1, <2>2, <2>3, <2>4 DEF QuestionOf
<1>6. QED
  BY <1>4, <1>5

\* Where a turn goes, as far as its question is concerned.
LEMMA QuestionOfOwn ==
  ASSUME TurnInv, HistInv, NEW t \in Turns, OneTurn(t)
  PROVE  QuestionOf(t)'
<1> DEFINE Asking == {"load", "recall", "summarize", "ask", "stream", "reply", "tools"}
<1>0. /\ StoreMoved(t) /\ QuestionOf(t) /\ TurnShape /\ pc \in [Turns -> Labels] /\ route[t] \in Nat \ {0}
  BY StoreMoves DEF HistInv, TurnInv, TurnShape
<1>1. \/ pc'[t] \in {"done", "closing"}
      \/ pc'[t] = pc[t] /\ pc[t] # "idle" /\ route'[t] = route[t] /\ ~(pc[t] = "store" /\ store' # store)
      \/ pc[t] = "idle" /\ pc'[t] = "store" /\ route'[t] = route[t] /\ store' = store
      \/ pc[t] = "store" /\ pc'[t] = "load" /\ route'[t] = route[t]
      \/ pc[t] = "stream" /\ pc'[t] = "store" /\ route'[t] # 1
      \/ pc[t] \in Asking /\ pc'[t] \in Asking
  <2>1. CASE Begin(t)
    BY <1>0, <2>1 DEF Begin, Goto, db
  <2>2. CASE SaveInput(t) \/ Load(t)
    BY <1>0, <2>2 DEF SaveInput, Load, Goto
  <2>3. CASE Recall(t) \/ Summarize(t) \/ SummaryFails(t)
    <3>1. pc[t] \in Asking /\ pc'[t] \in {"store", "done", "load", "recall", "summarize", "ask"}
      BY <1>0, <2>3, PreparesFields, Zenon DEF Prepares, Recall, Summarize, SummaryFails
    <3>2. pc'[t] # "store" /\ pc'[t] # "done"
      BY <1>0, <2>3 DEF Recall, Summarize, SummaryFails, Goto
    <3>3. QED
      BY <3>1, <3>2
  <2>4. CASE Ends(t)
    BY <1>0, <2>4, EndsFields
  <2>5. CASE Ask(t) \/ Delta(t) \/ Rejected(t)
    BY <1>0, <2>5, AskFields, DeltaFields, RejectedFields
  <2>6. CASE Failover(t)
    <3>1. pc[t] = "stream" /\ pc'[t] = "store" /\ route'[t] = route[t] + 1
      BY <1>0, <2>6, FailoverFields
    <3>2. QED
      BY <1>0, <3>1
  <2>7. CASE Stopped(t) \/ RecordUsage(t)
    BY <1>0, <2>7, StoppedFields, RecordUsageFields
  <2>8. ASSUME NEW wanted \in Menu[t] \union {<<>>}, Complete(t, wanted) PROVE pc[t] \in Asking /\ pc'[t] \in Asking
    BY <1>0, <2>8, CompleteFields
  <2>9. CASE SaveReply(t)
    BY <1>0, <2>9, SaveReplyFields
  <2>10. CASE ToolStep(t) \/ EndTools(t)
    BY <1>0, <2>10, ToolStepFields, EndToolsFields
  <2>11. CASE PressStop(t)
    BY <1>0, <2>11, PressStopFields DEF PressStop, Live, db
  <2>12. QED
    BY <2>1, <2>2, <2>3, <2>4, <2>5, <2>6, <2>7, <2>8, <2>9, <2>10, <2>11 DEF OneTurn, Step, Ends, ToolStep
<1>2. /\ store # <<>> => store' # <<>>
      /\ pc[t] = "store" /\ route[t] = 1 /\ pc'[t] = "load" => store' # <<>>
  BY <1>0 DEF StoreMoved
<1>3. CASE pc'[t] \in {"done", "closing"}
  BY <1>3 DEF QuestionOf
<1>4. CASE pc'[t] = pc[t] /\ pc[t] # "idle" /\ route'[t] = route[t] /\ ~(pc[t] = "store" /\ store' # store)
  <2>1. CASE pc[t] = "store" /\ route[t] = 1
    <3>1. \A i \in DOMAIN store : ~(IsUser(store, i) /\ store[i].turn = t)
      BY <1>0, <2>1 DEF QuestionOf
    <3>2. store' = store
      BY <1>4, <2>1
    <3>3. \A i \in DOMAIN store' : ~(IsUser(store', i) /\ store'[i].turn = t)
      BY <3>1, <3>2 DEF IsUser
    <3>4. QED
      BY <1>4, <2>1, <3>3 DEF QuestionOf
  <2>2. CASE ~(pc[t] = "store" /\ route[t] = 1)
    BY <1>0, <1>2, <1>4, <2>2 DEF QuestionOf
  <2>3. QED
    BY <2>1, <2>2
<1>5. CASE pc[t] = "idle" /\ pc'[t] = "store" /\ route'[t] = route[t] /\ store' = store
  <2>1. \A i \in DOMAIN store : ~(IsUser(store, i) /\ store[i].turn = t)
    BY <1>0, <1>5 DEF QuestionOf
  <2>2. \A i \in DOMAIN store' : ~(IsUser(store', i) /\ store'[i].turn = t)
    BY <1>5, <2>1 DEF IsUser
  <2>3. route[t] = 1
    BY <1>0, <1>5 DEF QuestionOf
  <2>4. QED
    BY <1>5, <2>2, <2>3 DEF QuestionOf
<1>6. CASE pc[t] = "store" /\ pc'[t] = "load" /\ route'[t] = route[t]
  BY <1>0, <1>2, <1>6 DEF QuestionOf
<1>7. CASE pc[t] = "stream" /\ pc'[t] = "store" /\ route'[t] # 1
  BY <1>0, <1>2, <1>7 DEF QuestionOf
<1>8. CASE pc[t] \in Asking /\ pc'[t] \in Asking
  BY <1>0, <1>2, <1>8 DEF QuestionOf
<1>9. QED
  BY <1>1, <1>3, <1>4, <1>5, <1>6, <1>7, <1>8

-----------------------------------------------------------------------------
\* What a turn has read is a part of the chat.
LEMMA SeenPart ==
  ASSUME HistInv, NEW t \in Turns
  PROVE  /\ Seen(t) \in Seq(Messages) /\ Len(Seen(t)) = seen[t] /\ seen[t] \in Nat /\ seen[t] <= Len(store)
         /\ \A i \in 1 .. seen[t] : Seen(t)[i] = store[i] /\ i \in 1 .. Len(store)
         /\ store \in Seq(Messages) /\ Len(store) \in Nat
<1>1. PICK h \in Seq(Messages) : h = store
  BY DEF HistInv, StoreWhole
<1>2. PICK n \in 0 .. Len(h) : n = seen[t]
  BY <1>1 DEF HistInv, ContextOf
<1>3. Len(h) \in Nat
  OBVIOUS
<1>4. /\ SubSeq(h, 1, n) \in Seq(Messages) /\ Len(SubSeq(h, 1, n)) = n
      /\ \A i \in 1 .. n : SubSeq(h, 1, n)[i] = h[i]
  BY <1>3
<1>5. \A i \in 1 .. n : i \in 1 .. Len(h)
  BY <1>3
<1>6. n \in Nat /\ n <= Len(h)
  BY <1>3
<1>7. QED
  BY <1>1, <1>2, <1>3, <1>4, <1>5, <1>6 DEF Seen

\* What a summary leaves of it begins right after what the summary covers.
LEMMA SeenRest ==
  ASSUME HistInv, NEW t \in Turns, seen[t] > 0, NEW b, BoundaryOf(store, b), b.upto <= seen[t]
  PROVE  /\ Recent(Seen(t), b.upto) = b.upto + 1 /\ b.upto \in Nat
         /\ b.upto + 1 \in 1 .. Len(store) /\ IsUser(store, b.upto + 1)
         /\ b.upto < seen[t] => b.upto + 1 \in 1 .. Len(Seen(t)) /\ IsUser(Seen(t), b.upto + 1)
<1>1. PICK h \in Seq(Messages) : h = Seen(t)
  BY SeenPart
<1>2. PICK n \in Nat : n = seen[t]
  BY SeenPart
<1>3. Len(h) = n /\ n > 0 /\ n <= Len(store) /\ Len(store) \in Nat /\ \A i \in 1 .. n : h[i] = store[i]
  BY <1>1, <1>2, SeenPart
<1>4. b \in Summaries /\ (b.upto > 0 => b.upto < Len(store) /\ IsUser(store, b.upto + 1))
  BY DEF BoundaryOf
<1>5. PICK u \in Nat : u = b.upto
  BY <1>4 DEF Summaries
<1>6. u <= n
  BY <1>2, <1>5
<1>7. u + 1 \in 1 .. Len(store) /\ IsUser(store, u + 1)
  <2>1. CASE u > 0
    BY <1>3, <1>4, <1>5, <2>1
  <2>2. CASE u = 0
    <3>1. store # <<>> /\ store \in Seq(Messages)
      BY <1>3, SeenPart
    <3>2. IsUser(store, 1)
      BY <3>1 DEF HistInv, StoreWhole
    <3>3. u + 1 = 1 /\ 1 \in 1 .. Len(store)
      BY <1>3, <2>2
    <3>4. QED
      BY <3>2, <3>3
  <2>3. QED
    BY <1>5, <2>1, <2>2
<1>8. ASSUME u < n PROVE u + 1 \in 1 .. Len(h) /\ IsUser(h, u + 1)
  <2>1. u + 1 \in 1 .. n
    BY <1>8
  <2>2. QED
    BY <1>3, <1>7, <2>1 DEF IsUser
<1>9. Recent(h, u) = u + 1
  <2>1. CASE u < n
    BY <1>3, <1>8, <2>1, RecentOf
  <2>2. CASE u = n
    BY <1>3, <2>2 DEF Recent
  <2>3. QED
    BY <1>6, <2>1, <2>2
<1>10. QED
  BY <1>1, <1>2, <1>5, <1>7, <1>8, <1>9

\* A user message that was read, with all before it covered or trimmed away.
LEMMA SendsWhole ==
  ASSUME HistInv, NEW t \in Turns, NEW f \in 1 .. Len(Seen(t)), IsUser(Seen(t), f),
         NEW covers \in SUBSET Nat, NEW trimmed \in BOOLEAN, trimmed \/ 1 .. f - 1 \subseteq covers
  PROVE  SentOf(store, [first |-> f, covers |-> covers, trimmed |-> trimmed])
<1>1. f \in Nat /\ f \in 1 .. Len(store) /\ IsUser(store, f)
  BY SeenPart DEF IsUser
<1>2. QED
  BY <1>1 DEF SentOf, Sendings

-----------------------------------------------------------------------------
\* What a step makes of what its turn has read and sends.
ContextMoved(t) ==
  /\ seen' = [seen EXCEPT ![t] = seen'[t]] /\ base' = [base EXCEPT ![t] = base'[t]] /\ sent' = [sent EXCEPT ![t] = sent'[t]]
  /\ seen'[t] \in Nat /\ base'[t] \in Summaries /\ sent'[t] \in Sendings
  /\ ContextOf(t)' /\ BoundaryOf(store', summary') /\ summary'.upto >= summary.upto

\* The request goes out without another summary.
LEMMA RecallMoves ==
  ASSUME TurnInv, HistInv, NEW t \in Turns, Recall(t)
  PROVE  ContextMoved(t)
<1>0. /\ ContextOf(t) /\ BoundaryOf(store, summary) /\ pc[t] = "recall" /\ seen[t] > 0 /\ seen[t] \in Nat
      /\ seen \in [Turns -> Nat] /\ base \in [Turns -> Summaries] /\ sent \in [Turns -> Sendings] /\ pc \in [Turns -> Labels]
  BY SeenPart DEF HistInv, ContextOf, Recall, TurnInv, TurnShape
<1>1. /\ store' = store /\ summary' = summary /\ seen' = seen
      /\ \E b \in {Usable(t, summary), NoSummary} : base' = [base EXCEPT ![t] = b]
      /\ \/ /\ Goto(t, "ask")
            /\ Send(t, Unfolded(Seen(t), Recent(Seen(t), base'[t].upto)), base'[t],
                    Unfolded(Seen(t), Recent(Seen(t), base'[t].upto)) > Recent(Seen(t), base'[t].upto))
         \/ Goto(t, "summarize") /\ sent' = sent /\ ~(Recent(Seen(t), base'[t].upto) > Len(Seen(t)))
  <2>1. Recall(t)
    OBVIOUS
  <2>2. store' = store /\ summary' = summary /\ seen' = seen
    BY <2>1, Zenon DEF Recall, db
  <2>3. \E b \in {Usable(t, summary), NoSummary} : base' = [base EXCEPT ![t] = b]
    BY <2>1, Zenon DEF Recall
  <2>4. QED
    BY <2>1, <2>2, <2>3, Zenon DEF Recall
<1>2. PICK b \in {Usable(t, summary), NoSummary} : base' = [base EXCEPT ![t] = b]
  BY <1>1
<1>3. base'[t] = b /\ base' = [base EXCEPT ![t] = base'[t]]
  BY <1>0, <1>2
<1>4. BoundaryOf(store, b) /\ b \in Summaries /\ b.upto <= seen[t]
  <2>1. BoundaryOf(store, NoSummary) /\ NoSummary.upto <= seen[t]
    <3>1. NoSummary.upto = 0 /\ NoSummary.covers = {} /\ NoSummary \in Summaries
      BY DEF NoSummary, Summaries
    <3>2. 1 .. 0 = {} /\ ~(0 > 0)
      OBVIOUS
    <3>3. QED
      BY <1>0, <3>1, <3>2 DEF BoundaryOf
  <2>2. summary \in Summaries /\ summary.upto \in Nat
    BY <1>0 DEF BoundaryOf, Summaries
  <2>3. summary.upto > seen[t] \/ summary.upto <= seen[t]
    BY <1>0, <2>2
  <2>4. QED
    BY <1>0, <2>1, <2>3 DEF BoundaryOf, Usable
<1>5. PICK u \in Nat : u = b.upto
  BY <1>4 DEF Summaries
<1>6. PICK h \in Seq(Messages) : h = Seen(t)
  BY SeenPart
<1>7. /\ Recent(h, u) = u + 1 /\ u + 1 \in 1 .. Len(store) /\ IsUser(store, u + 1)
      /\ u < seen[t] => u + 1 \in 1 .. Len(h) /\ IsUser(h, u + 1)
      /\ Len(h) = seen[t]
  BY <1>0, <1>4, <1>5, <1>6, SeenRest, SeenPart
<1>8. SentOf(store, sent'[t]) /\ sent' = [sent EXCEPT ![t] = sent'[t]] /\ pc'[t] \in {"ask", "summarize"}
      /\ (pc'[t] = "summarize" => u < seen[t])
  <2>1. CASE Goto(t, "summarize") /\ sent' = sent /\ ~(Recent(Seen(t), base'[t].upto) > Len(Seen(t)))
    <3>1. pc'[t] = "summarize"
      BY <1>0, <2>1 DEF Goto
    <3>2. ~(u + 1 > Len(h))
      BY <1>3, <1>5, <1>6, <1>7, <2>1
    <3>3. u < seen[t]
      BY <1>0, <1>7, <3>2
    <3>4. QED
      BY <1>0, <2>1, <3>1, <3>3 DEF ContextOf
  <2>2. CASE /\ Goto(t, "ask")
             /\ Send(t, Unfolded(Seen(t), Recent(Seen(t), base'[t].upto)), base'[t],
                     Unfolded(Seen(t), Recent(Seen(t), base'[t].upto)) > Recent(Seen(t), base'[t].upto))
    <3> DEFINE f == Unfolded(h, u + 1)
               r == [first |-> f, covers |-> b.covers, trimmed |-> f > u + 1]
    <3>1. pc'[t] = "ask"
      BY <1>0, <2>2 DEF Goto
    <3>2. sent' = [sent EXCEPT ![t] = r]
      BY <1>3, <1>5, <1>6, <1>7, <2>2 DEF Send
    <3>3. sent'[t] = r
      BY <1>0, <3>2
    <3>4. b.covers = 1 .. u /\ b.covers \in SUBSET Nat
      BY <1>4, <1>5 DEF BoundaryOf, Summaries
    <3>5. CASE u < seen[t]
      <4>1. f \in u + 1 .. Len(h) /\ IsUser(h, f)
        BY <1>7, <3>5, TrimOf
      <4> HIDE DEF f
      <4>2. f \in 1 .. Len(h) /\ (f > u + 1) \in BOOLEAN /\ (f > u + 1 \/ f = u + 1)
        <5>1. Len(h) \in Nat
          OBVIOUS
        <5>2. QED
          BY <4>1, <5>1
      <4>3. f > u + 1 \/ 1 .. f - 1 \subseteq b.covers
        BY <3>4, <4>2
      <4>4. SentOf(store, r)
        BY <1>6, <3>4, <4>1, <4>2, <4>3, SendsWhole
      <4>5. QED
        BY <3>1, <3>2, <3>3, <4>4
    <3>6. CASE ~(u < seen[t])
      <4>1. u + 1 > Len(h)
        BY <1>0, <1>7, <3>6
      <4>2. f = u + 1
        BY <4>1 DEF Unfolded
      <4> HIDE DEF f
      <4>3. r.first = u + 1 /\ r.covers = 1 .. u /\ r.trimmed = FALSE /\ r \in Sendings
        <5>1. (f > u + 1) = FALSE
          BY <4>2
        <5>2. r = [first |-> u + 1, covers |-> 1 .. u, trimmed |-> FALSE]
          BY <3>4, <4>2, <5>1
        <5>3. u + 1 \in Nat /\ 1 .. u \in SUBSET Nat
          OBVIOUS
        <5> HIDE DEF r
        <5>4. QED
          BY <5>2, <5>3 DEF Sendings
      <4>4. u + 1 - 1 = u
        OBVIOUS
      <4>5. SentOf(store, r)
        BY <1>7, <4>3, <4>4 DEF SentOf
      <4>6. QED
        BY <3>1, <3>2, <3>3, <4>5
    <3>7. QED
      BY <3>5, <3>6
  <2>3. QED
    BY <1>1, <2>1, <2>2
<1>9. sent'[t] \in Sendings
  BY <1>8 DEF SentOf
<1>10. summary.upto >= summary.upto
  BY <1>0 DEF BoundaryOf, Summaries
<1>11. ContextOf(t)'
  <2>1. seen[t] \in 0 .. Len(store)
    BY <1>0 DEF ContextOf
  <2>2. QED
    BY <1>0, <1>1, <1>3, <1>4, <1>5, <1>8, <2>1 DEF ContextOf
<1>12. QED
  BY <1>0, <1>1, <1>3, <1>4, <1>8, <1>9, <1>10, <1>11 DEF ContextMoved

\* What is summed up ends before the cut, and the request begins there.
LEMMA SummarizeMoves ==
  ASSUME TurnInv, HistInv, NEW t \in Turns, Summarize(t) \/ SummaryFails(t)
  PROVE  ContextMoved(t)
<1>0. /\ ContextOf(t) /\ BoundaryOf(store, summary) /\ pc[t] = "summarize" /\ seen[t] > 0 /\ seen[t] \in Nat
      /\ seen \in [Turns -> Nat] /\ base \in [Turns -> Summaries] /\ sent \in [Turns -> Sendings] /\ pc \in [Turns -> Labels]
  BY SeenPart DEF HistInv, ContextOf, Summarize, SummaryFails, TurnInv, TurnShape
<1>1. PICK u \in Nat : u = base[t].upto
  BY <1>0 DEF Summaries
<1>2. PICK h \in Seq(Messages) : h = Seen(t)
  BY SeenPart
<1>3. /\ BoundaryOf(store, base[t]) /\ base[t] \in Summaries /\ base[t].covers = 1 .. u /\ base[t].covers \in SUBSET Nat
      /\ u < seen[t] /\ u <= seen[t] /\ seen[t] \in 0 .. Len(store)
  BY <1>0, <1>1 DEF ContextOf, BoundaryOf, Summaries
<1>4. Recent(h, u) = u + 1 /\ u + 1 \in 1 .. Len(h) /\ IsUser(h, u + 1) /\ Len(h) = seen[t]
  BY <1>0, <1>1, <1>2, <1>3, SeenRest, SeenPart
<1> DEFINE cut == CutPoint(h, u + 1)
           rest == Trim(h, u + 1)
<1>5. cut \in u + 1 .. Len(h) /\ IsUser(h, cut) /\ rest \in u + 1 .. Len(h) /\ IsUser(h, rest)
  BY <1>4, TrimOf
<1>6. Folded(t) = [upto |-> cut - 1, covers |-> base[t].covers \union u + 1 .. cut - 1]
  BY <1>1, <1>2, <1>4, Zenon DEF Folded
<1>7. Trim(Seen(t), Recent(Seen(t), base[t].upto)) = rest
  BY <1>1, <1>2, <1>4, Zenon
<1> HIDE DEF cut, rest
<1>8. /\ cut \in Nat /\ cut \in 1 .. Len(h) /\ cut - 1 \in Nat /\ rest \in 1 .. Len(h) /\ (cut - 1) + 1 = cut
      /\ base[t].covers \union u + 1 .. cut - 1 = 1 .. cut - 1 /\ 1 .. cut - 1 \in SUBSET Nat
  <2>1. Len(h) \in Nat
    OBVIOUS
  <2>2. cut \in Int /\ u + 1 <= cut /\ cut <= Len(h) /\ rest \in Int /\ u + 1 <= rest /\ rest <= Len(h)
    BY <1>5, <2>1
  <2>3. (1 .. u) \union (u + 1 .. cut - 1) = 1 .. cut - 1
    BY <2>2
  <2>4. QED
    BY <1>3, <2>1, <2>2, <2>3
<1>9. cut \in 1 .. Len(store) /\ IsUser(store, cut)
  <2>1. cut \in 1 .. seen[t]
    BY <1>4, <1>8
  <2>2. cut \in 1 .. Len(store) /\ h[cut] = store[cut]
    BY <1>2, <2>1, SeenPart
  <2>3. QED
    BY <1>5, <2>2 DEF IsUser
<1>10. PICK new \in Summaries : new = Folded(t) /\ new.upto = cut - 1 /\ new.covers = 1 .. cut - 1
  <2>1. [upto |-> cut - 1, covers |-> 1 .. cut - 1] \in Summaries
    BY <1>8 DEF Summaries
  <2>2. QED
    BY <1>6, <1>8, <2>1
<1>11. BoundaryOf(store, new)
  <2>1. Len(store) \in Nat
    BY SeenPart
  <2>2. cut - 1 < Len(store)
    BY <1>9, <2>1
  <2>3. QED
    BY <1>8, <1>9, <1>10, <2>2 DEF BoundaryOf
<1>12. SentOf(store, [first |-> cut, covers |-> 1 .. cut - 1, trimmed |-> FALSE])
  BY <1>2, <1>5, <1>8, SendsWhole
<1>13. SentOf(store, [first |-> rest, covers |-> base[t].covers, trimmed |-> TRUE])
  BY <1>2, <1>3, <1>5, <1>8, SendsWhole
<1>14. /\ store' = store /\ seen' = seen /\ base' = base /\ pc' = [pc EXCEPT ![t] = "ask"]
       /\ summary' = summary \/ (summary.upto < new.upto /\ summary' = new)
       /\ \/ sent' = [sent EXCEPT ![t] = [first |-> new.upto + 1, covers |-> new.covers, trimmed |-> FALSE]]
          \/ sent' = [sent EXCEPT ![t] = [first |-> rest, covers |-> base[t].covers, trimmed |-> TRUE]]
  <2>1. CASE Summarize(t)
    <3>1. store' = store /\ seen' = seen /\ base' = base /\ pc' = [pc EXCEPT ![t] = "ask"]
      BY <2>1, Zenon DEF Summarize, Goto
    <3>2. summary' = summary \/ SaveSummary(new)
      BY <1>10, <2>1, Zenon DEF Summarize
    <3>3. Send(t, new.upto + 1, new, FALSE)
      BY <1>10, <2>1, Zenon DEF Summarize
    <3>4. QED
      BY <3>1, <3>2, <3>3 DEF SaveSummary, Send
  <2>2. CASE SummaryFails(t)
    <3>1. store' = store /\ seen' = seen /\ base' = base /\ pc' = [pc EXCEPT ![t] = "ask"] /\ summary' = summary
      BY <2>2, Zenon DEF SummaryFails, Goto, db
    <3>2. Send(t, rest, base[t], TRUE)
      BY <1>7, <2>2, Zenon DEF SummaryFails
    <3>3. QED
      BY <3>1, <3>2 DEF Send
  <2>3. QED
    BY <2>1, <2>2
<1>15. new.upto + 1 = cut
  BY <1>8, <1>10
<1>16. SentOf(store, sent'[t]) /\ sent' = [sent EXCEPT ![t] = sent'[t]] /\ sent'[t] \in Sendings
  <2>1. sent' = [sent EXCEPT ![t] = sent'[t]]
    BY <1>0, <1>14
  <2>2. \/ sent'[t] = [first |-> cut, covers |-> 1 .. cut - 1, trimmed |-> FALSE]
        \/ sent'[t] = [first |-> rest, covers |-> base[t].covers, trimmed |-> TRUE]
    BY <1>0, <1>10, <1>14, <1>15
  <2>3. SentOf(store, sent'[t])
    BY <1>12, <1>13, <2>2
  <2>4. QED
    BY <2>1, <2>3 DEF SentOf
<1>17. BoundaryOf(store, summary') /\ summary'.upto >= summary.upto
  <2>1. summary.upto \in Nat
    BY <1>0 DEF BoundaryOf, Summaries
  <2>2. new.upto \in Nat
    BY <1>8, <1>10
  <2>3. CASE summary' = summary
    BY <1>0, <2>1, <2>3
  <2>4. CASE summary.upto < new.upto /\ summary' = new
    BY <1>11, <2>1, <2>2, <2>4
  <2>5. QED
    BY <1>14, <2>3, <2>4
<1>18. pc'[t] = "ask"
  BY <1>0, <1>14
<1>19. ContextOf(t)'
  BY <1>3, <1>14, <1>16, <1>18 DEF ContextOf
<1>20. seen' = [seen EXCEPT ![t] = seen'[t]] /\ base' = [base EXCEPT ![t] = base'[t]]
  BY <1>0, <1>14
<1>21. QED
  BY <1>0, <1>3, <1>14, <1>16, <1>17, <1>19, <1>20 DEF ContextMoved

\* The other steps leave what was read and sent, read it anew, or drop it.
LEMMA OtherContext ==
  ASSUME TurnInv, NEW t \in Turns, OneTurn(t), ~Recall(t), ~Summarize(t), ~SummaryFails(t)
  PROVE  /\ summary' = summary
         /\ \/ seen' = seen /\ base' = base /\ sent' = sent /\ (pc'[t] = pc[t] \/ pc'[t] \notin {"recall", "summarize"})
            \/ pc[t] = "load" /\ pc'[t] = "recall" /\ store' = store /\ seen' = [seen EXCEPT ![t] = Len(store)] /\ base' = base /\ sent' = sent
            \/ /\ seen' = [u \in Turns |-> IF u \in {t} THEN 0 ELSE seen[u]]
               /\ base' = [u \in Turns |-> IF u \in {t} THEN NoSummary ELSE base[u]]
               /\ sent' = [u \in Turns |-> IF u \in {t} THEN NothingSent ELSE sent[u]]
               /\ pc'[t] = "done"
<1>0. pc \in [Turns -> Labels] /\ TurnShape
  BY DEF TurnInv, TurnShape
<1>1. CASE Begin(t)
  BY <1>0, <1>1 DEF Begin, Goto, db, context
<1>2. CASE SaveInput(t) \/ Load(t)
  BY <1>0, <1>2 DEF SaveInput, Load, Goto, db, context
<1>3. CASE LeaveLoop(t) \/ StreamFails(t) \/ DbFails(t)
  BY <1>0, <1>3 DEF LeaveLoop, StreamFails, DbFails, End, Goto, db, context
<1>4. CASE Ask(t) \/ Delta(t) \/ Rejected(t) \/ Failover(t)
  BY <1>0, <1>4 DEF Ask, Delta, Rejected, Failover, Goto, db, context
<1>5. CASE Stopped(t) \/ SaveReply(t)
  BY <1>0, <1>5 DEF Stopped, SaveReply, End, Goto, context
<1>6. ASSUME NEW wanted \in Menu[t] \union {<<>>}, Complete(t, wanted)
      PROVE  summary' = summary /\ seen' = seen /\ base' = base /\ sent' = sent /\ pc'[t] = "reply"
  BY <1>0, <1>6 DEF Complete, Goto, db, context
<1>7. CASE StartBatch(t) \/ FinishTool(t) \/ PressStop(t)
  BY <1>0, <1>7 DEF StartBatch, FinishTool, PressStop, db, context
<1>8. CASE EndTools(t)
  BY <1>0, <1>8 DEF EndTools, Goto, context
<1>9. CASE RecordUsage(t)
  <2>1. Forget({t}) /\ summary' = summary /\ pc' = [pc EXCEPT ![t] = "done"]
    BY <1>9 DEF RecordUsage, Goto
  <2>2. QED
    BY <1>0, <2>1 DEF Forget
<1>10. QED
  BY <1>1, <1>2, <1>3, <1>4, <1>5, <1>6, <1>7, <1>8, <1>9 DEF OneTurn, Step

\* Nothing read and nothing sent.
LEMMA NothingWhole ==
  ASSUME NEW h
  PROVE  BoundaryOf(h, NoSummary) /\ SentOf(h, NothingSent)
<1>1. NoSummary.upto = 0 /\ NoSummary.covers = {} /\ NoSummary \in Summaries
  BY DEF NoSummary, Summaries
<1>2. NothingSent.first = 0 /\ NothingSent \in Sendings
  BY DEF NothingSent, Sendings
<1>3. 1 .. 0 = {} /\ ~(0 > 0)
  OBVIOUS
<1>4. QED
  BY <1>1, <1>2, <1>3 DEF BoundaryOf, SentOf

LEMMA OtherMoves ==
  ASSUME TurnInv, HistInv, NEW t \in Turns, OneTurn(t), ~Recall(t), ~Summarize(t), ~SummaryFails(t)
  PROVE  ContextMoved(t)
<1>0. /\ StoreMoved(t) /\ ContextOf(t) /\ QuestionOf(t) /\ BoundaryOf(store, summary)
      /\ seen \in [Turns -> Nat] /\ base \in [Turns -> Summaries] /\ sent \in [Turns -> Sendings]
      /\ seen[t] \in Nat /\ base[t] \in Summaries /\ sent[t] \in Sendings /\ seen[t] <= Len(store) /\ Len(store) \in Nat
  BY StoreMoves, SeenPart DEF HistInv
<1>1. /\ \A b : BoundaryOf(store, b) => BoundaryOf(store', b)
      /\ \A r : SentOf(store, r) => SentOf(store', r)
      /\ Len(store') \in Nat /\ Len(store) <= Len(store')
  BY <1>0, Zenon DEF StoreMoved
<1>2. BoundaryOf(store', base[t]) /\ SentOf(store', sent[t]) /\ BoundaryOf(store', summary)
  BY <1>0, <1>1 DEF ContextOf
<1>3. summary' = summary
  BY OtherContext
<1>4. BoundaryOf(store', summary') /\ summary'.upto >= summary.upto
  <2>1. summary.upto \in Nat
    BY <1>0 DEF BoundaryOf, Summaries
  <2>2. QED
    BY <1>2, <1>3, <2>1
<1>5. CASE seen' = seen /\ base' = base /\ sent' = sent /\ (pc'[t] = pc[t] \/ pc'[t] \notin {"recall", "summarize"})
  <2>1. seen[t] \in 0 .. Len(store')
    BY <1>0, <1>1
  <2>2. ContextOf(t)'
    BY <1>0, <1>2, <1>5, <2>1 DEF ContextOf
  <2>3. seen' = [seen EXCEPT ![t] = seen'[t]] /\ base' = [base EXCEPT ![t] = base'[t]] /\ sent' = [sent EXCEPT ![t] = sent'[t]]
    BY <1>0, <1>5
  <2>4. QED
    BY <1>0, <1>4, <1>5, <2>2, <2>3 DEF ContextMoved
<1>6. CASE pc[t] = "load" /\ pc'[t] = "recall" /\ store' = store /\ seen' = [seen EXCEPT ![t] = Len(store)] /\ base' = base /\ sent' = sent
  <2>1. store # <<>> /\ store \in Seq(Messages)
    BY <1>0, <1>6 DEF QuestionOf, HistInv, StoreWhole
  <2>2. Len(store) > 0 /\ Len(store) \in 0 .. Len(store)
    BY <1>0, <2>1
  <2>3. seen'[t] = Len(store) /\ Len(store') = Len(store)
    BY <1>0, <1>6
  <2>4. ContextOf(t)'
    BY <1>0, <1>2, <1>6, <2>2, <2>3 DEF ContextOf
  <2>5. seen' = [seen EXCEPT ![t] = seen'[t]] /\ base' = [base EXCEPT ![t] = base'[t]] /\ sent' = [sent EXCEPT ![t] = sent'[t]]
    BY <1>0, <1>6
  <2>6. QED
    BY <1>0, <1>4, <1>6, <2>3, <2>4, <2>5 DEF ContextMoved
<1>7. CASE /\ seen' = [u \in Turns |-> IF u \in {t} THEN 0 ELSE seen[u]]
           /\ base' = [u \in Turns |-> IF u \in {t} THEN NoSummary ELSE base[u]]
           /\ sent' = [u \in Turns |-> IF u \in {t} THEN NothingSent ELSE sent[u]]
           /\ pc'[t] = "done"
  <2>1. seen'[t] = 0 /\ base'[t] = NoSummary /\ sent'[t] = NothingSent
    BY <1>7
  <2>2. 0 \in 0 .. Len(store') /\ 0 \in Nat
    BY <1>1
  <2>3. BoundaryOf(store', NoSummary) /\ SentOf(store', NothingSent)
    BY NothingWhole
  <2>4. ContextOf(t)'
    BY <1>7, <2>1, <2>2, <2>3 DEF ContextOf
  <2>5. seen' = [seen EXCEPT ![t] = seen'[t]] /\ base' = [base EXCEPT ![t] = base'[t]] /\ sent' = [sent EXCEPT ![t] = sent'[t]]
    BY <1>0, <1>7
  <2>6. NoSummary \in Summaries /\ NothingSent \in Sendings
    BY <2>3 DEF BoundaryOf, SentOf
  <2>7. QED
    BY <1>4, <2>1, <2>2, <2>4, <2>5, <2>6 DEF ContextMoved
<1>8. QED
  BY <1>5, <1>6, <1>7, OtherContext

LEMMA ContextMoves ==
  ASSUME TurnInv, HistInv, NEW t \in Turns, OneTurn(t)
  PROVE  ContextMoved(t)
BY RecallMoves, SummarizeMoves, OtherMoves

\* What one turn stores leaves true what the others have read and send.
LEMMA OtherContexts ==
  ASSUME TurnInv, HistInv, NEW t \in Turns, OneTurn(t), NEW u \in Turns, u # t
  PROVE  ContextOf(u)'
<1>1. StoreMoved(t) /\ ContextMoved(t) /\ OnlyTurn(t) /\ ContextOf(u)
  BY StoreMoves, ContextMoves, OneTurnFits DEF HistInv, TurnInv
<1>2. pc'[u] = pc[u]
  BY <1>1, OthersLeft DEF TurnInv
<1>3. seen'[u] = seen[u] /\ base'[u] = base[u] /\ sent'[u] = sent[u]
  BY <1>1 DEF ContextMoved, HistInv
<1>4. BoundaryOf(store', base[u]) /\ SentOf(store', sent[u])
  BY <1>1, Zenon DEF StoreMoved, ContextOf
<1>5. seen[u] \in 0 .. Len(store')
  <2>1. Len(store) \in Nat /\ seen[u] \in Nat /\ seen[u] <= Len(store)
    BY SeenPart
  <2>2. Len(store') \in Nat /\ Len(store) <= Len(store')
    BY <1>1 DEF StoreMoved
  <2>3. QED
    BY <2>1, <2>2
<1>6. QED
  BY <1>1, <1>2, <1>3, <1>4, <1>5 DEF ContextOf

\* What a step leaves of the bounds.
LEMMA BoundsKept ==
  ASSUME HistInv, NEW t \in Turns, OneTurn(t)
  PROVE  asked' = asked /\ crashes' = crashes /\ faults' \in 0 .. MaxFaults
<1>1. asked' = asked /\ crashes' = crashes /\ (faults' = faults \/ (faults < MaxFaults /\ faults' = faults + 1))
  <2>1. CASE Recall(t) \/ Summarize(t)
    BY <2>1, Zenon DEF Recall, Summarize
  <2>2. CASE Stopped(t) \/ DbFails(t) \/ RecordUsage(t)
    BY <2>2, Zenon DEF Stopped, DbFails, RecordUsage
  <2>3. CASE Begin(t) \/ SaveInput(t) \/ Load(t) \/ SummaryFails(t)
    BY <2>3 DEF Begin, SaveInput, Load, SummaryFails, env
  <2>4. CASE LeaveLoop(t) \/ Ask(t) \/ Delta(t) \/ Rejected(t) \/ Failover(t) \/ StreamFails(t)
    BY <2>4 DEF LeaveLoop, Ask, Delta, Rejected, Failover, StreamFails, env
  <2>5. ASSUME NEW wanted \in Menu[t] \union {<<>>}, Complete(t, wanted) PROVE asked' = asked /\ crashes' = crashes /\ faults' = faults
    BY <2>5 DEF Complete, env
  <2>6. CASE SaveReply(t) \/ StartBatch(t) \/ FinishTool(t) \/ EndTools(t) \/ PressStop(t)
    BY <2>6 DEF SaveReply, StartBatch, FinishTool, EndTools, PressStop, env
  <2>7. QED
    BY <2>1, <2>2, <2>3, <2>4, <2>5, <2>6 DEF OneTurn, Step
<1>2. faults \in 0 .. MaxFaults /\ MaxFaults \in Nat
  BY Limits DEF HistInv
<1>3. QED
  BY <1>1, <1>2

LEMMA HistInvInit == Init => HistInv
<1> SUFFICES ASSUME Init PROVE HistInv
  OBVIOUS
<1>1. /\ store \in Past /\ summary = NoSummary /\ pc = Each("idle") /\ route = Each(1) /\ seen = Each(0)
      /\ base = Each(NoSummary) /\ sent = Each(NothingSent) /\ asked \in Asked /\ faults = 0 /\ crashes = 0
  BY DEF Init
<1>2. store \in Seq([role : Roles, turn : {"past"}, call : CallId]) /\ (store # <<>> => IsUser(store, 1)) /\ Paired(store)
  BY <1>1, PastAssumption
<1>3. store \in Seq(Messages) /\ \A i \in DOMAIN store : store[i].turn = "past"
  <2>1. [role : Roles, turn : {"past"}, call : CallId] \subseteq Messages
    BY DEF Messages
  <2> DEFINE S == [role : Roles, turn : {"past"}, call : CallId]
  <2>2. \A x \in S : x.turn = "past"
    OBVIOUS
  <2> HIDE DEF S
  <2>3. store \in Seq(S) /\ S \subseteq Messages
    BY <1>2, <2>1 DEF S
  <2>4. store \in Seq(Messages) /\ \A i \in DOMAIN store : store[i] \in S
    BY <2>3
  <2>5. QED
    BY <2>2, <2>4
<1>4. StoreWhole
  BY <1>2, <1>3 DEF StoreWhole
<1>5. InputStoredOnce
  BY <1>3 DEF InputStoredOnce
<1>6. BoundaryOf(store, NoSummary) /\ SentOf(store, NothingSent)
  BY NothingWhole
<1>7. NoSummary \in Summaries /\ NothingSent \in Sendings
  BY <1>6 DEF BoundaryOf, SentOf
<1>8. seen \in [Turns -> Nat] /\ base \in [Turns -> Summaries] /\ sent \in [Turns -> Sendings]
  BY <1>1, <1>7 DEF Each
<1>9. ASSUME NEW t \in Turns PROVE QuestionOf(t) /\ ContextOf(t)
  <2>1. pc[t] = "idle" /\ route[t] = 1 /\ seen[t] = 0 /\ base[t] = NoSummary /\ sent[t] = NothingSent
    BY <1>1 DEF Each
  <2>2. t # "past"
    BY PastAssumption
  <2>3. QuestionOf(t)
    BY <1>3, <2>1, <2>2 DEF QuestionOf
  <2>4. 0 \in 0 .. Len(store)
    <3>1. Len(store) \in Nat
      BY <1>3
    <3>2. QED
      BY <3>1
  <2>5. QED
    BY <1>6, <2>1, <2>3, <2>4 DEF ContextOf
<1>10. faults \in 0 .. MaxFaults /\ crashes \in 0 .. MaxCrashes
  BY <1>1, Limits
<1>11. QED
  BY <1>1, <1>4, <1>5, <1>6, <1>8, <1>9, <1>10 DEF HistInv

\* A crash forgets what the live turns had read, and nothing that is stored.
LEMMA CrashHist ==
  ASSUME TurnInv, HistInv, Crash
  PROVE  HistInv'
<1>1. /\ store' = store /\ summary' = summary /\ asked' = asked /\ faults' = faults
      /\ crashes < MaxCrashes /\ crashes' = crashes + 1
      /\ pc' = [t \in Turns |-> IF Live(t) THEN "lost" ELSE pc[t]]
  BY DEF Crash, db
<1>2. ASSUME NEW t \in Turns, Live(t)
      PROVE  seen'[t] = 0 /\ base'[t] = NoSummary /\ sent'[t] = NothingSent /\ pc'[t] = "lost"
  BY <1>1, <1>2 DEF Crash, Forget
<1>3. ASSUME NEW t \in Turns, ~Live(t)
      PROVE  seen'[t] = seen[t] /\ base'[t] = base[t] /\ sent'[t] = sent[t] /\ route'[t] = route[t] /\ pc'[t] = pc[t]
  BY <1>1, <1>3 DEF Crash, Forget
<1>5. seen' \in [Turns -> Nat] /\ base' \in [Turns -> Summaries] /\ sent' \in [Turns -> Sendings]
  <2>1. NoSummary \in Summaries /\ NothingSent \in Sendings
    BY NothingWhole DEF BoundaryOf, SentOf
  <2>2. seen \in [Turns -> Nat] /\ base \in [Turns -> Summaries] /\ sent \in [Turns -> Sendings]
    BY DEF HistInv
  <2>3. Forget({t \in Turns : Live(t)})
    BY DEF Crash
  <2>4. QED
    BY <2>1, <2>2, <2>3 DEF Forget
<1>6. ASSUME NEW t \in Turns PROVE QuestionOf(t)' /\ ContextOf(t)'
  <2>1. QuestionOf(t) /\ ContextOf(t)
    BY DEF HistInv
  <2>2. CASE Live(t)
    <3>1. 0 \in 0 .. Len(store')
      <4>1. Len(store') \in Nat
        BY <1>1, SeenPart
      <4>2. QED
        BY <4>1
    <3>2. BoundaryOf(store', NoSummary) /\ SentOf(store', NothingSent)
      BY NothingWhole
    <3>3. QED
      BY <1>2, <2>2, <3>1, <3>2 DEF QuestionOf, ContextOf
  <2>3. CASE ~Live(t)
    <3>1. QuestionOf(t)'
      BY <1>1, <1>3, <2>1, <2>3 DEF QuestionOf, IsUser
    <3>2. ContextOf(t)'
      BY <1>1, <1>3, <2>1, <2>3 DEF ContextOf
    <3>3. QED
      BY <3>1, <3>2
  <2>4. QED
    BY <2>2, <2>3
<1>7. crashes' \in 0 .. MaxCrashes
  <2>1. crashes \in 0 .. MaxCrashes /\ MaxCrashes \in Nat
    BY Limits DEF HistInv
  <2>2. QED
    BY <1>1, <2>1
<1>8. StoreWhole' /\ InputStoredOnce' /\ BoundaryOf(store', summary')
  <2>1. StoreWhole /\ InputStoredOnce /\ BoundaryOf(store, summary)
    BY DEF HistInv
  <2>2. StoreWhole'
    BY <1>1, <2>1 DEF StoreWhole, Paired, IsUser, IsCall, IsOutput, SameCall
  <2>3. InputStoredOnce'
    BY <1>1, <2>1 DEF InputStoredOnce, IsUser
  <2>4. QED
    BY <1>1, <2>1, <2>2, <2>3
<1>9. asked' \in Asked /\ faults' \in 0 .. MaxFaults
  BY <1>1 DEF HistInv
<1>10. QED
  BY <1>5, <1>6, <1>7, <1>8, <1>9 DEF HistInv

LEMMA HistInvStep == TurnInv /\ HistInv /\ [Next]_vars => HistInv'
<1> SUFFICES ASSUME TurnInv, HistInv, [Next]_vars PROVE HistInv'
  OBVIOUS
<1>1. CASE Crash
  BY <1>1, CrashHist
<1>2. ASSUME NEW t \in Turns, OneTurn(t) PROVE HistInv'
  <2>1. StoreMoved(t) /\ ContextMoved(t) /\ QuestionOf(t)' /\ InputStoredOnce'
    BY <1>2, StoreMoves, ContextMoves, QuestionOfOwn, QuestionsKept
  <2>2. StoreWhole' /\ ContextOf(t)' /\ BoundaryOf(store', summary')
    BY <2>1 DEF StoreMoved, ContextMoved
  <2>3. \A u \in Turns : QuestionOf(u)'
    BY <1>2, <2>1, QuestionsKept
  <2>4. \A u \in Turns : ContextOf(u)'
    BY <1>2, <2>2, OtherContexts
  <2>5. seen' \in [Turns -> Nat] /\ base' \in [Turns -> Summaries] /\ sent' \in [Turns -> Sendings]
    BY <2>1 DEF ContextMoved, HistInv
  <2>6. asked' \in Asked /\ faults' \in 0 .. MaxFaults /\ crashes' \in 0 .. MaxCrashes
    BY <1>2, BoundsKept DEF HistInv
  <2>7. QED
    BY <2>1, <2>2, <2>3, <2>4, <2>5, <2>6 DEF HistInv
<1>3. CASE UNCHANGED vars
  <2>1. /\ store' = store /\ summary' = summary /\ asked' = asked /\ faults' = faults /\ crashes' = crashes
        /\ seen' = seen /\ base' = base /\ sent' = sent /\ pc' = pc /\ route' = route
    BY <1>3 DEF vars, db, context, env
  <2>2. ASSUME NEW t \in Turns PROVE QuestionOf(t)' /\ ContextOf(t)'
    <3>1. QuestionOf(t) /\ ContextOf(t)
      BY DEF HistInv
    <3>2. QED
      BY <2>1, <3>1 DEF QuestionOf, ContextOf, IsUser
  <2>3. StoreWhole' /\ InputStoredOnce' /\ BoundaryOf(store', summary')
    BY <2>1 DEF HistInv, StoreWhole, InputStoredOnce, Paired, IsUser, IsCall, IsOutput, SameCall
  <2>4. QED
    BY <2>1, <2>2, <2>3 DEF HistInv
<1>4. QED
  BY <1>1, <1>2, <1>3 DEF Next, OneTurn

LEMMA HistInvAlways == Spec => [](TurnInv /\ HistInv)
BY TurnInvInit, TurnInvStep, HistInvInit, HistInvStep, PTL DEF Spec

-----------------------------------------------------------------------------
\* Every variable of a chat and its turns stays in its range.
LEMMA ChatTyped ==
  ASSUME TurnInv, HistInv
  PROVE  TypeOK
<1>1. TurnShape /\ store \in Seq(Messages) /\ BoundaryOf(store, summary)
  BY DEF TurnInv, HistInv, StoreWhole
<1>2. seen \in [Turns -> 0 .. Len(store)]
  <2>1. seen \in [Turns -> Nat] /\ \A t \in Turns : seen[t] \in 0 .. Len(store)
    BY DEF HistInv, ContextOf
  <2> HIDE DEF HistInv
  <2>2. QED
    BY <2>1, Zenon
<1>3. asked \in Asked /\ summary \in Summaries /\ base \in [Turns -> Summaries] /\ faults \in 0 .. MaxFaults /\ crashes \in 0 .. MaxCrashes
  BY <1>1 DEF HistInv, BoundaryOf
<1>4. sent \in [Turns -> [first : Nat, covers : SUBSET Nat, trimmed : BOOLEAN]]
  BY DEF HistInv, Sendings
<1>5. QED
  BY <1>1, <1>2, <1>3, <1>4, Zenon DEF TypeOK, TurnShape, Labels

\* What is sent opens with a question and holds the newest one read.
LEMMA RequestsWhole ==
  ASSUME TurnInv, HistInv
  PROVE  RequestsAreWhole
<1> SUFFICES ASSUME NEW t \in Turns, sent[t].first \in DOMAIN Seen(t)
             PROVE  IsUser(store, sent[t].first) /\ sent[t].first <= LastUser(Seen(t), 1)
  BY DEF RequestsAreWhole
<1>1. PICK h \in Seq(Messages) : h = Seen(t)
  BY SeenPart
<1>2. PICK f \in DOMAIN h : f = sent[t].first
  BY <1>1
<1>3. Len(h) \in Nat /\ f \in 1 .. Len(h) /\ f # 0
  OBVIOUS
<1>4. SentOf(store, sent[t])
  BY DEF HistInv, ContextOf
<1>5. IsUser(store, f)
  BY <1>2, <1>3, <1>4 DEF SentOf
<1>6. IsUser(h, f)
  BY <1>1, <1>3, <1>5, SeenPart DEF IsUser
<1> DEFINE T == {1} \union {i \in 1 .. Len(h) : IsUser(h, i)}
<1>7. T \subseteq 0 .. Len(h) /\ T # {} /\ f \in T
  BY <1>3, <1>6
<1>8. LastUser(h, 1) = Max(T)
  BY DEF LastUser
<1> HIDE DEF T
<1>9. f <= LastUser(h, 1)
  BY <1>3, <1>7, <1>8, MaxOf
<1>10. QED
  BY <1>1, <1>2, <1>5, <1>9

\* Type correctness of the whole chat.
THEOREM ChatTypeCorrect == Spec => []TypeOK
BY HistInvAlways, ChatTyped, PTL

\* A chat keeps every tool call with its result, no question between them,
\* whatever fails, overlaps or dies.
THEOREM ChatKeepsPairs == Spec => []PairsUnbroken
<1>1. HistInv => PairsUnbroken
  BY DEF HistInv, StoreWhole, PairsUnbroken
<1>2. QED
  BY <1>1, HistInvAlways, PTL

\* All of it together: nothing read is forgotten, the summary stands for what
\* it says and never moves back, and a question is stored once.
THEOREM ChatHistoryIsSafe == Spec => HistorySafety
<1>1. HistInv => PairsUnbroken /\ NothingForgotten /\ SummaryIsExact /\ InputStoredOnce
  <2> SUFFICES ASSUME HistInv PROVE PairsUnbroken /\ NothingForgotten /\ SummaryIsExact /\ InputStoredOnce
    OBVIOUS
  <2>1. PairsUnbroken /\ InputStoredOnce
    BY DEF HistInv, StoreWhole, PairsUnbroken
  <2>2. SummaryIsExact
    BY DEF HistInv, BoundaryOf, SummaryIsExact
  <2>3. NothingForgotten
    <3> SUFFICES ASSUME NEW t \in Turns, sent[t].first > 0, ~sent[t].trimmed
                 PROVE  1 .. sent[t].first - 1 \subseteq sent[t].covers
      BY DEF NothingForgotten
    <3>1. SentOf(store, sent[t])
      BY DEF HistInv, ContextOf
    <3>2. sent[t].first # 0
      BY <3>1 DEF SentOf, Sendings
    <3>3. QED
      BY <3>1, <3>2 DEF SentOf
  <2>4. QED
    BY <2>1, <2>2, <2>3
<1>2. TurnInv /\ HistInv => TypeOK /\ RequestsAreWhole
  BY ChatTyped, RequestsWhole
<1>3. TurnInv /\ HistInv /\ [Next]_vars => [summary'.upto >= summary.upto]_vars
  <2> SUFFICES ASSUME TurnInv, HistInv, Next PROVE summary'.upto >= summary.upto
    OBVIOUS
  <2>1. CASE Crash
    <3>1. summary' = summary /\ summary.upto \in Nat
      BY <2>1 DEF Crash, db, HistInv, BoundaryOf, Summaries
    <3>2. QED
      BY <3>1
  <2>2. ASSUME NEW t \in Turns, OneTurn(t) PROVE summary'.upto >= summary.upto
    BY <2>2, ContextMoves DEF ContextMoved
  <2>3. QED
    BY <2>1, <2>2 DEF Next, OneTurn
<1>4. Spec => []TypeOK /\ []PairsUnbroken /\ []RequestsAreWhole /\ []NothingForgotten /\ []SummaryIsExact /\ []InputStoredOnce
  BY <1>1, <1>2, HistInvAlways, PTL
<1>5. Spec => [][summary'.upto >= summary.upto]_vars
  BY <1>3, HistInvAlways, PTL DEF Spec
<1>6. QED
  BY <1>4, <1>5, PTL DEF HistorySafety, SummaryMovesForward
=============================================================================
