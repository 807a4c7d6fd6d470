----------------------------- MODULE ChatTurns -----------------------------
(***************************************************************************)
(* The turns of ONE chat session once the lane has let them through: the   *)
(* loop of a provider's chatStream (src/llms/openai_compatible_provider.ts *)
(* with tool_runner.ts and tool_loop_guard.ts), the context engine it asks *)
(* for the history to send, the failover between the routes to a model     *)
(* (src/core/marketplace/failover_llm.ts) and the usage record around it   *)
(* (src/llms/usage_tracking.ts), over the stored messages and summary.     *)
(*                                                                         *)
(* Text is one thing the user has heard or not; the model's answers, the   *)
(* tools' outcomes and the network's failures are choices.                 *)
(***************************************************************************)
EXTENDS HistoryContext, SequencesExt

CONSTANTS
  Turns,          \* turns a session may have
  Asked,          \* sets of turns asked of one session (bounds the model)
  Overlap,        \* may two turns run at one time (a lane lost its lock)?
  Past,           \* stored conversations a session may have had before
  Routes,         \* Routes[t]: how many providers serve the turn's model
  Menu,           \* Menu[t]: sequences of tools its model may ask for in one answer
  Parallel,       \* the tools marked `parallel`
  MaxParallel,    \* MAX_PARALLEL_TOOLS
  MaxRounds,      \* limits.maxRounds, MAX_TOOL_ROUNDS
  MaxStreak,      \* MAX_FAILURES_IN_A_ROW
  MaxSame,        \* MAX_SAME_TOOL_FAILURES
  Stoppable,      \* turns the user may stop (bounds the model)
  Rejectable,     \* parts of a request a service may reject, of {"stream_options", "max_tokens", "tools"}
  MaxFaults,      \* how often a query fails (bounds the model)
  MaxCrashes      \* how often the server dies (bounds the model)

Tools == UNION {UNION {Range(m) : m \in Menu[t]} : t \in Turns}

ASSUME TurnAssumption ==
  /\ Asked \subseteq SUBSET Turns /\ Overlap \in BOOLEAN /\ Stoppable \subseteq Turns /\ Routes \in [Turns -> Nat \ {0}]
  /\ Rejectable \subseteq {"stream_options", "max_tokens", "tools"}
  /\ {MaxParallel, MaxRounds, MaxStreak, MaxSame} \subseteq Nat \ {0}
  /\ MaxFaults \in Nat /\ MaxCrashes \in Nat
  /\ \A t \in Turns : \A wanted \in Menu[t] : wanted \in Seq(Range(wanted))

VARIABLES
  asked,     \* the turns this session is asked for
  \* the database
  store,     \* chat_messages of the session, in id order
  summary,   \* its session_summaries row; upto 0: none
  row,       \* requests in the turn's token_usage row; 0: none
  \* one turn, in memory
  pc,
  stop,      \* signal.aborted
  route,     \* the route being tried
  seen,      \* how many stored messages loadMessages() returned
  base,      \* the summary as the context engine read it
  sent,      \* the history part of the request
  guard,     \* ToolLoopGuard and wrapUpSent
  dropped,   \* parts left out of the request after a 400
  said,      \* text streamed in the current answer
  calls,     \* tools of the answer, with what became of each
  counted,   \* requests UsageTrackingLLM has counted
  \* history
  heard,     \* routes whose text or tool calls reached the user
  billed,    \* requests the provider has billed
  ended,     \* how the turn ended
  answered,  \* the wrap-up request got an answer
  faults, crashes

db == <<store, summary, row>>
context == <<seen, base, sent>>
answer == <<dropped, said, calls>>
history == <<heard, billed, ended, answered>>
env == <<faults, crashes>>
vars == <<asked, db, pc, stop, route, context, guard, answer, counted, history, env>>

NoSummary == [upto |-> 0, covers |-> {}]
NothingSent == [first |-> 0, covers |-> {}, trimmed |-> FALSE]
NewGuard == [rounds |-> 0, streak |-> 0, failed |-> [x \in Tools |-> 0],
             stopped |-> 0, wrapped |-> FALSE]

Message(role, t, n) == [role |-> role, turn |-> t, call |-> n]
Each(init) == [t \in Turns |-> init]

Init ==
  /\ asked \in Asked
  /\ store \in Past /\ summary = NoSummary /\ row = Each(0)
  /\ pc = Each("idle") /\ stop = Each(FALSE) /\ route = Each(1)
  /\ seen = Each(0) /\ base = Each(NoSummary) /\ sent = Each(NothingSent)
  /\ guard = Each(NewGuard) /\ dropped = Each({}) /\ said = Each(FALSE) /\ calls = Each(<<>>)
  /\ counted = Each(0) /\ heard = Each({}) /\ billed = Each(0) /\ ended = Each("")
  /\ answered = Each(FALSE)
  /\ faults = 0 /\ crashes = 0

\* The turn is over: its generator and all it held are gone.
Forget(T) ==
  LET Reset(f, init) == [t \in Turns |-> IF t \in T THEN init ELSE f[t]]
  IN  /\ stop' = Reset(stop, FALSE) /\ route' = Reset(route, 1)
      /\ seen' = Reset(seen, 0) /\ base' = Reset(base, NoSummary)
      /\ sent' = Reset(sent, NothingSent) /\ guard' = Reset(guard, NewGuard)
      /\ dropped' = Reset(dropped, {}) /\ said' = Reset(said, FALSE) /\ calls' = Reset(calls, <<>>)
      /\ counted' = Reset(counted, 0) /\ heard' = Reset(heard, {}) /\ billed' = Reset(billed, 0)
      /\ ended' = Reset(ended, "") /\ answered' = Reset(answered, FALSE)

Goto(t, label) == pc' = [pc EXCEPT ![t] = label]
End(t, how) == Goto(t, "closing") /\ ended' = [ended EXCEPT ![t] = how]
Live(t) == pc[t] \notin {"idle", "done", "lost"}
Seen(t) == SubSeq(store, 1, seen[t])

-----------------------------------------------------------------------------
\* The quota gate and the wallet let the turn start, or it ends at once.
Begin(t) ==
  /\ pc[t] = "idle" /\ t \in asked
  /\ Overlap \/ \A u \in Turns : ~Live(u)
  /\ Goto(t, "store") \/ Goto(t, "done")
  /\ UNCHANGED <<asked, db, stop, route, context, guard, answer, counted, history, env>>

\* Faulty variant: the next route stores the question again.
SaveInputEveryRoute(t) ==
  /\ pc[t] = "store"
  /\ store' = Append(store, Message("user", t, <<0, 0>>))
  /\ Goto(t, "load")
  /\ UNCHANGED <<asked, summary, row, stop, route, context, guard, answer, counted, history, env>>

\* The first route stores the user's message; a later one is passed none.
SaveInput(t) ==
  /\ pc[t] = "store"
  /\ store' = IF route[t] = 1 THEN Append(store, Message("user", t, <<0, 0>>)) ELSE store
  /\ Goto(t, "load")
  /\ UNCHANGED <<asked, summary, row, stop, route, context, guard, answer, counted, history, env>>

\* Faulty variant: one message more is counted than was read.
LoadOneMore(t) ==
  /\ pc[t] = "load"
  /\ seen' = [seen EXCEPT ![t] = Len(store) + 1]
  /\ Goto(t, "recall")
  /\ UNCHANGED <<asked, db, stop, route, base, sent, guard, answer, counted, history, env>>

Load(t) ==
  /\ pc[t] = "load"
  /\ seen' = [seen EXCEPT ![t] = Len(store)]
  /\ Goto(t, "recall")
  /\ UNCHANGED <<asked, db, stop, route, base, sent, guard, answer, counted, history, env>>

Send(t, first, s, trimmed) ==
  sent' = [sent EXCEPT ![t] = [first |-> first, covers |-> s.covers, trimmed |-> trimmed]]

\* A summary that covers more than the history loaded is ignored.
Usable(t, s) == IF s.upto > seen[t] THEN NoSummary ELSE s

\* assemble() reads the summary (or fails to) and decides whether to fold.
Recall(t) ==
  /\ pc[t] = "recall"
  /\ \/ base' = [base EXCEPT ![t] = Usable(t, summary)] /\ faults' = faults
     \/ base' = [base EXCEPT ![t] = NoSummary] /\ faults < MaxFaults /\ faults' = faults + 1
  /\ LET h == Seen(t)
         first == Recent(h, base'[t].upto)
     IN  IF first > Len(h) \/ Fits(h, first) \/ ~WorthFolding(h, first)
         THEN Goto(t, "ask") /\ Send(t, Unfolded(h, first), base'[t], Unfolded(h, first) > first)
         ELSE Goto(t, "summarize") /\ UNCHANGED sent
  /\ UNCHANGED <<asked, db, stop, route, seen, guard, answer, counted, history, crashes>>

\* Faulty variant: the last message before the cut is left out of the summary.
FoldedLate(t) ==
  LET first == Recent(Seen(t), base[t].upto)
      cut == CutPoint(Seen(t), first)
  IN  [upto |-> cut - 1, covers |-> base[t].covers \union first..cut-2]

\* Faulty variant: the previous summary is not merged in.
FoldedAfresh(t) ==
  LET first == Recent(Seen(t), base[t].upto)
      cut == CutPoint(Seen(t), first)
  IN  [upto |-> cut - 1, covers |-> first..cut-1]

Folded(t) ==
  LET first == Recent(Seen(t), base[t].upto)
      cut == CutPoint(Seen(t), first)
  IN  [upto |-> cut - 1, covers |-> base[t].covers \union first..cut-1]

\* Faulty variant: an upsert without its condition.
SaveSummaryAlways(new) ==
  summary' = new

\* SummaryStore.save: never over a summary that covers as many messages.
SaveSummary(new) ==
  summary' = IF summary.upto < new.upto THEN new ELSE summary

\* The model wrote the summary; a failure to save it is only logged.
Summarize(t) ==
  /\ pc[t] = "summarize"
  /\ \/ SaveSummary(Folded(t)) /\ faults' = faults
     \/ summary' = summary /\ faults < MaxFaults /\ faults' = faults + 1
  /\ Send(t, Folded(t).upto + 1, Folded(t), FALSE)
  /\ Goto(t, "ask")
  /\ UNCHANGED <<asked, store, row, stop, route, seen, base, guard, answer, counted, history, crashes>>

SummaryFails(t) ==
  /\ pc[t] = "summarize"
  /\ Send(t, Trim(Seen(t), Recent(Seen(t), base[t].upto)), base[t], TRUE)
  /\ Goto(t, "ask")
  /\ UNCHANGED <<asked, db, stop, route, seen, base, guard, answer, counted, history, env>>

-----------------------------------------------------------------------------
\* The head of the loop: stopped by the user, ended by the guard, or the next
\* request -- the last one, with tools off, once the guard has had enough.
LeaveLoop(t) ==
  /\ pc[t] = "ask"
  /\ \/ stop[t] /\ End(t, "cancelled")
     \/ ~stop[t] /\ guard[t].stopped > 0 /\ guard[t].wrapped /\ End(t, "done")
  /\ UNCHANGED <<asked, db, stop, route, context, guard, answer, counted, heard, billed, answered, env>>

Ask(t) ==
  /\ pc[t] = "ask" /\ ~stop[t]
  /\ ~(guard[t].stopped > 0 /\ guard[t].wrapped)
  /\ guard' = [guard EXCEPT ![t].wrapped = guard[t].stopped > 0]
  /\ said' = [said EXCEPT ![t] = FALSE]
  /\ Goto(t, "stream")
  /\ UNCHANGED <<asked, db, stop, route, context, dropped, calls, counted, history, env>>

Hear(t) == heard' = [heard EXCEPT ![t] = @ \union {route[t]}]

Delta(t) ==
  /\ pc[t] = "stream" /\ ~said[t]
  /\ said' = [said EXCEPT ![t] = TRUE]
  /\ Hear(t)
  /\ UNCHANGED <<asked, db, pc, stop, route, context, guard, dropped, calls, counted, billed, ended, answered, env>>

\* Faulty variant: the part is sent again, and rejected again.
RejectedAgain(t) ==
  /\ pc[t] = "stream" /\ ~said[t]
  /\ Rejectable \ dropped[t] # {} /\ dropped' = dropped
  /\ Goto(t, "ask")
  /\ UNCHANGED <<asked, db, stop, route, context, guard, said, calls, counted, history, env>>

\* A 400 that names a part of the request: once more without that part.
Rejected(t) ==
  /\ pc[t] = "stream" /\ ~said[t]
  /\ \E part \in Rejectable \ dropped[t] : dropped' = [dropped EXCEPT ![t] = @ \union {part}]
  /\ Goto(t, "ask")
  /\ UNCHANGED <<asked, db, stop, route, context, guard, said, calls, counted, history, env>>

\* Faulty variant: another route takes over in the middle of an answer.
FailoverMidAnswer(t) ==
  /\ pc[t] = "stream"
  /\ route[t] < Routes[t] /\ ~stop[t]
  /\ route' = [route EXCEPT ![t] = @ + 1]
  /\ guard' = [guard EXCEPT ![t] = NewGuard]
  /\ dropped' = [dropped EXCEPT ![t] = {}]
  /\ Goto(t, "store")
  /\ UNCHANGED <<asked, db, stop, context, said, calls, counted, history, env>>

\* The next route takes over while nothing was heard and the user is waiting.
Failover(t) ==
  /\ pc[t] = "stream"
  /\ heard[t] = {} /\ route[t] < Routes[t] /\ ~stop[t]
  /\ route' = [route EXCEPT ![t] = @ + 1]
  /\ guard' = [guard EXCEPT ![t] = NewGuard]
  /\ dropped' = [dropped EXCEPT ![t] = {}]
  /\ Goto(t, "store")
  /\ UNCHANGED <<asked, db, stop, context, said, calls, counted, history, env>>

\* An error that is not retried, or that no route is left for.
StreamFails(t) ==
  /\ pc[t] = "stream" /\ ~stop[t]
  /\ End(t, "error")
  /\ UNCHANGED <<asked, db, stop, route, context, guard, answer, counted, heard, billed, answered, env>>

Bill(t) == billed' = [billed EXCEPT ![t] = @ + 1]
Count(t) == counted' = [counted EXCEPT ![t] = @ + 1]

\* The text heard in this answer becomes a stored reply.
KeepReply(t) ==
  store' = IF said[t] THEN Append(store, Message("assistant", t, <<0, 0>>)) ELSE store

\* Faulty variant: a stopped answer is not counted.
StoppedForFree(t) ==
  /\ pc[t] = "stream" /\ stop[t]
  /\ Bill(t) /\ counted' = counted
  /\ \/ KeepReply(t) /\ faults' = faults
     \/ said[t] /\ store' = store /\ faults < MaxFaults /\ faults' = faults + 1
  /\ End(t, "cancelled")
  /\ UNCHANGED <<asked, summary, row, stop, route, context, guard, answer, heard, answered, crashes>>

\* Stop during the stream: an estimate is counted, what was heard is kept.
Stopped(t) ==
  /\ pc[t] = "stream" /\ stop[t]
  /\ Bill(t) /\ Count(t)
  /\ \/ KeepReply(t) /\ faults' = faults
     \/ said[t] /\ store' = store /\ faults < MaxFaults /\ faults' = faults + 1
  /\ End(t, "cancelled")
  /\ UNCHANGED <<asked, summary, row, stop, route, context, guard, answer, heard, answered, crashes>>

\* The answer is complete: its usage is counted if the service was asked for
\* it, its tools are named to the user once its text is stored.
Complete(t, wanted) ==
  /\ pc[t] = "stream"
  /\ wanted # <<>> => "tools" \notin dropped[t]
  /\ Bill(t)
  /\ IF "stream_options" \in dropped[t] THEN counted' = counted ELSE Count(t)
  /\ calls' = [calls EXCEPT ![t] = [k \in DOMAIN wanted |-> [tool |-> wanted[k], state |-> "new"]]]
  /\ answered' = [answered EXCEPT ![t] = guard[t].wrapped]
  /\ Goto(t, "reply")
  /\ UNCHANGED <<asked, db, stop, route, context, guard, dropped, said, heard, ended, env>>

SaveReply(t) ==
  /\ pc[t] = "reply"
  /\ KeepReply(t)
  /\ IF calls[t] = <<>> THEN End(t, "done") /\ UNCHANGED heard
     ELSE Goto(t, "tools") /\ Hear(t) /\ UNCHANGED ended
  /\ UNCHANGED <<asked, summary, row, stop, route, context, guard, answer, counted, billed, answered, env>>

-----------------------------------------------------------------------------
\* runToolCalls(): a tool runs alone, or with the parallel ones next to it.
InState(t, s) == {k \in DOMAIN calls[t] : calls[t][k].state = s}
IsParallel(t, k) == calls[t][k].tool \in Parallel

\* Faulty variant: the call that ends a run of parallel ones joins it.
BatchOneMore(t) ==
  LET i == Min(InState(t, "new"))
  IN  {i} \union {j \in i+1..i+MaxParallel : j <= Len(calls[t]) /\ \A k \in i..j-1 : IsParallel(t, k)}

Batch(t) ==
  LET i == Min(InState(t, "new"))
  IN  {i} \union {j \in i+1..i+MaxParallel-1 : j <= Len(calls[t]) /\ \A k \in i..j : IsParallel(t, k)}

StartBatch(t) ==
  /\ pc[t] = "tools"
  /\ InState(t, "running") = {} /\ InState(t, "new") # {}
  /\ calls' = [calls EXCEPT ![t] = [k \in DOMAIN @ |->
                 IF k \in Batch(t) THEN [@[k] EXCEPT !.state = "running"] ELSE @[k]]]
  /\ UNCHANGED <<asked, db, pc, stop, route, context, guard, dropped, said, counted, history, env>>

FinishTool(t) ==
  /\ pc[t] = "tools"
  /\ \E k \in InState(t, "running"), how \in {"ok", "failed"} :
       calls' = [calls EXCEPT ![t][k].state = how]
  /\ UNCHANGED <<asked, db, pc, stop, route, context, guard, dropped, said, counted, history, env>>

\* ToolLoopGuard.stop keeps the first reason; here, the round it was given in.
Halt(g) == IF g.stopped = 0 THEN [g EXCEPT !.stopped = g.rounds + 1] ELSE g

\* ToolLoopGuard.record, for one call.
Record(g, c) ==
  IF c.state = "ok" THEN [g EXCEPT !.streak = 0]
  ELSE LET next == [g EXCEPT !.streak = @ + 1, !.failed[c.tool] = @ + 1]
       IN  IF next.streak >= MaxStreak \/ next.failed[c.tool] >= MaxSame THEN Halt(next) ELSE next

\* Every call's result is recorded, in order.
RecordAll(g, results) ==
  LET run[n \in 0..Len(results)] == IF n = 0 THEN g ELSE Record(run[n - 1], results[n])
  IN  run[Len(results)]

\* Faulty variant: one round more than the limit.
EndRoundLate(g, spent) ==
  LET next == IF g.rounds >= MaxRounds \/ spent THEN Halt(g) ELSE g
  IN  [next EXCEPT !.rounds = @ + 1]

\* ToolLoopGuard.endRound; the time and token budgets may be used up too.
EndRound(g, spent) ==
  LET next == IF g.rounds + 1 >= MaxRounds \/ spent THEN Halt(g) ELSE g
  IN  [next EXCEPT !.rounds = @ + 1]

\* Faulty variant: the results of failed calls are not stored.
StoredSuccesses(t) ==
  LET id(k) == <<guard[t].rounds + 1, k>>
      fine == SelectSeq([k \in DOMAIN calls[t] |-> k], LAMBDA k : calls[t][k].state = "ok")
  IN  [k \in DOMAIN calls[t] |-> Message("tool_call", t, id(k))]
      \o [n \in DOMAIN fine |-> Message("tool_call_output", t, id(fine[n]))]

\* All calls first, then all results, in the order the model asked.
Stored(t) ==
  LET id(k) == <<guard[t].rounds + 1, k>>
  IN  [k \in DOMAIN calls[t] |-> Message("tool_call", t, id(k))]
      \o [k \in DOMAIN calls[t] |-> Message("tool_call_output", t, id(k))]

\* Every result is in: the guard sees them in order, the pairs are stored in
\* one transaction, the round ends.
EndTools(t) ==
  /\ pc[t] = "tools"
  /\ InState(t, "new") = {} /\ InState(t, "running") = {}
  /\ store' = store \o Stored(t)
  /\ \E spent \in BOOLEAN :
       guard' = [guard EXCEPT ![t] = EndRound(RecordAll(@, calls[t]), spent)]
  /\ calls' = [calls EXCEPT ![t] = <<>>]
  /\ Goto(t, "ask")
  /\ UNCHANGED <<asked, summary, row, stop, route, context, dropped, said, counted, history, env>>

-----------------------------------------------------------------------------
\* A query fails and the turn with it.
DbFails(t) ==
  /\ faults < MaxFaults /\ faults' = faults + 1
  /\ \/ pc[t] = "store" /\ route[t] = 1
     \/ pc[t] = "load"
     \/ pc[t] = "reply" /\ said[t]
     \/ pc[t] = "tools" /\ InState(t, "new") = {} /\ InState(t, "running") = {}
  /\ End(t, "error")
  /\ UNCHANGED <<asked, db, stop, route, context, guard, answer, counted, heard, billed, answered, crashes>>

\* The `finally` of UsageTrackingLLM: one row for the whole turn.
RecordUsage(t) ==
  /\ pc[t] = "closing"
  /\ \/ row' = [row EXCEPT ![t] = counted[t]] /\ faults' = faults
     \/ row' = row /\ faults < MaxFaults /\ faults' = faults + 1
  /\ Goto(t, "done") /\ Forget({t})
  /\ UNCHANGED <<asked, store, summary, crashes>>

PressStop(t) ==
  /\ Live(t) /\ ~stop[t] /\ t \in Stoppable
  /\ stop' = [stop EXCEPT ![t] = TRUE]
  /\ UNCHANGED <<asked, db, pc, route, context, guard, answer, counted, history, env>>

\* The server dies: every turn on it is gone.
Crash ==
  /\ crashes < MaxCrashes /\ crashes' = crashes + 1
  /\ \E t \in Turns : Live(t)
  /\ pc' = [t \in Turns |-> IF Live(t) THEN "lost" ELSE pc[t]]
  /\ Forget({t \in Turns : Live(t)})
  /\ UNCHANGED <<asked, db, faults>>

Step(t) ==
  \/ SaveInput(t) \/ Load(t) \/ Recall(t) \/ Summarize(t) \/ SummaryFails(t)
  \/ LeaveLoop(t) \/ Ask(t) \/ Delta(t) \/ Rejected(t) \/ Failover(t) \/ StreamFails(t)
  \/ Stopped(t) \/ (\E wanted \in Menu[t] \union {<<>>} : Complete(t, wanted)) \/ SaveReply(t)
  \/ StartBatch(t) \/ FinishTool(t) \/ EndTools(t) \/ DbFails(t) \/ RecordUsage(t)

Next == Crash \/ \E t \in Turns : Begin(t) \/ Step(t) \/ PressStop(t)

Spec == Init /\ [][Next]_vars

\* A request is answered, rejected or timed out, and every tool ends.
FairSpec == Spec /\ \A t \in Turns : WF_vars(Step(t))

-----------------------------------------------------------------------------
CallId == Nat \X Nat
Messages == [role : Roles, turn : Turns \union {"past"}, call : CallId]
Summaries == [upto : Nat, covers : SUBSET Nat]
Guards == [rounds : Nat, streak : Nat, failed : [Tools -> Nat], stopped : Nat, wrapped : BOOLEAN]
Calls == [tool : Tools, state : {"new", "running", "ok", "failed"}]

\* Every variable stays in its range, and a turn has read no more than is stored.
TypeOK ==
  /\ asked \in Asked /\ store \in Seq(Messages) /\ summary \in Summaries /\ row \in [Turns -> Nat]
  /\ pc \in [Turns -> {"idle", "store", "load", "recall", "summarize", "ask", "stream",
                       "reply", "tools", "closing", "done", "lost"}]
  /\ stop \in [Turns -> BOOLEAN] /\ route \in [Turns -> Nat \ {0}]
  /\ seen \in [Turns -> 0..Len(store)] /\ base \in [Turns -> Summaries]
  /\ sent \in [Turns -> [first : Nat, covers : SUBSET Nat, trimmed : BOOLEAN]]
  /\ guard \in [Turns -> Guards]
  /\ dropped \in [Turns -> SUBSET Rejectable] /\ said \in [Turns -> BOOLEAN]
  /\ calls \in [Turns -> Seq(Calls)]
  /\ counted \in [Turns -> Nat] /\ billed \in [Turns -> Nat]
  /\ heard \in [Turns -> SUBSET Nat] /\ answered \in [Turns -> BOOLEAN]
  /\ ended \in [Turns -> {"", "done", "error", "cancelled"}]
  /\ faults \in 0..MaxFaults /\ crashes \in 0..MaxCrashes

SameCall(h, i, j) == h[i].turn = h[j].turn /\ h[i].call = h[j].call
IsCall(h, i) == h[i].role = "tool_call"
IsOutput(h, i) == h[i].role = "tool_call_output"

Paired(h) ==
  /\ \A i \in DOMAIN h : IsCall(h, i) => \E j \in i+1..Len(h) :
       IsOutput(h, j) /\ SameCall(h, i, j) /\ \A k \in i..j : ~IsUser(h, k)
  /\ \A j \in DOMAIN h : IsOutput(h, j) => \E i \in 1..j-1 :
       IsCall(h, i) /\ SameCall(h, i, j) /\ \A k \in i..j : ~IsUser(h, k)

\* What earlier turns left: a question first, and calls with their results.
ASSUME PastAssumption ==
  /\ "past" \notin Turns
  /\ \A h \in Past :
       /\ h \in Seq([role : Roles, turn : {"past"}, call : CallId])
       /\ h # <<>> => IsUser(h, 1)
       /\ Paired(h)

\* A stored tool call is followed by its result and a result preceded by its
\* call, with no user message between them, whatever failed or died: the
\* models reject half a pair, and a cut at a user message must not make one.
PairsUnbroken == Paired(store)

\* What is sent of the history opens with a user message, so with no half
\* pair, and always holds the newest question, over budget or not -- unless a
\* turn that overlaps has folded everything this one had read.
RequestsAreWhole ==
  \A t \in Turns : sent[t].first \in DOMAIN Seen(t) =>
    /\ IsUser(store, sent[t].first)
    /\ sent[t].first <= LastUser(Seen(t), 1)

\* Every message the turn has read is in the request or in the summary sent
\* with it, unless the summary could not be had and the history was trimmed.
NothingForgotten ==
  \A t \in Turns : sent[t].first > 0 /\ ~sent[t].trimmed =>
    1..sent[t].first-1 \subseteq sent[t].covers

\* The stored summary stands for exactly the messages before a user message.
SummaryIsExact ==
  /\ summary.covers = 1..summary.upto
  /\ summary.upto > 0 => summary.upto < Len(store) /\ IsUser(store, summary.upto + 1)

\* A slower, older compaction never replaces a newer summary.
SummaryMovesForward == [][summary'.upto >= summary.upto]_vars

\* However many routes a turn goes through, its question is stored once.
InputStoredOnce ==
  \A i, j \in DOMAIN store :
    store[i].turn # "past" /\ IsUser(store, i) /\ IsUser(store, j) /\ store[i].turn = store[j].turn => i = j

\* Once a provider was heard no other takes over: nothing is said twice.
OneVoice == \A t \in Turns : \A r, q \in heard[t] : r = q

\* Tools run at the same time only if all of them may, and never more than
\* the limit; any other runs when all before it have ended.
SideEffectsInOrder ==
  \A t \in Turns :
    /\ Cardinality(InState(t, "running")) <= MaxParallel
    /\ \A k \in InState(t, "running"), i \in DOMAIN calls[t] :
         /\ i < k /\ ~IsParallel(t, k) => calls[t][i].state \in {"ok", "failed"}
         /\ i < k /\ ~IsParallel(t, i) => calls[t][i].state \in {"ok", "failed"}

\* A model that keeps calling tools gets one more round than the guard
\* allows, the one it asks for when told to wrap up.
LoopIsBounded ==
  \A t \in Turns :
    /\ guard[t].rounds <= MaxRounds + 1
    /\ guard[t].stopped > 0 => guard[t].rounds <= guard[t].stopped + 1

\* What the provider billed for a turn -- answers and stopped answers -- is in
\* its usage record, unless the service would not report it.
NoReplyIsFree ==
  [][\A t \in Turns : pc[t] = "closing" /\ pc'[t] = "done" =>
       \/ row'[t] = billed[t]
       \/ "stream_options" \in dropped[t]
       \/ faults' > faults]_vars

\* What is stored and sent of the chat: calls with their results, the question
\* once, and a summary that covers what is left out and never moves back.
HistorySafety ==
  /\ [](TypeOK /\ PairsUnbroken /\ RequestsAreWhole /\ NothingForgotten /\ SummaryIsExact /\ InputStoredOnce)
  /\ SummaryMovesForward

\* A turn is one voice that works in order, within its bounds, and is accounted
\* for.
TurnSafety == [](OneVoice /\ SideEffectsInOrder /\ LoopIsBounded) /\ NoReplyIsFree

\* Every turn that begins comes to its end or dies with its server: time and
\* again, none is left running.
EveryTurnEnds == []<>(\A t \in Turns : ~Live(t))

\* tool_loop_guard.ts: "makes ONE last request with tools switched off and
\* WRAP_UP appended, so the user gets an answer".
WrapUpIsAnswered ==
  \A t \in Turns : ended[t] = "done" /\ guard[t].wrapped => answered[t]
=============================================================================
