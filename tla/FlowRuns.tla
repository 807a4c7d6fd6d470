------------------------------ MODULE FlowRuns ------------------------------
(***************************************************************************)
(* The life of ONE workflow run: the row of pipeline_runs, the executors   *)
(* (src/core/flows/flow_runner.ts) that move it along on the servers, and  *)
(* the users and servers that start, decide, cancel, edit and sweep it     *)
(* (src/service/agents/pipeline_service.ts and its repository).            *)
(*                                                                         *)
(* Each await of the code is a step boundary: between the status check and *)
(* the node, between a node and its save, between claiming a waiting run   *)
(* and recording the decision, anything else may happen.                   *)
(***************************************************************************)
EXTENDS Integers, FiniteSets

CONSTANTS
  Servers,    \* servers; each executes the run at most once at a time
  Flows,      \* workflow graphs the pipeline may be edited to
  Nodes,      \* node ids
  Kind,       \* Kind[f][n]: how node n of flow f is run (see Kinds)
  Succ,       \* Succ[f][n]: the set of <<branch, node>> edges leaving n
  Start,      \* the id of the start node
  MaxNodes,   \* MAX_NODES_PER_RUN
  MaxEdits,   \* how often the workflow is edited (bounds the model)
  NoNode, NoFlow

\* "instant": start, notify, and conditions and routers by rule; "model": agent,
\* parallel, and conditions and routers answered by the AI, which save before
\* they call a model; "absent": the flow has no such node.
Kinds == {"instant", "model", "approval", "end", "absent"}
Outcomes == {"next", "yes", "no", "approved", "rejected"}
Final == {"succeeded", "failed", "rejected", "cancelled"}

\* Where a node may lead.
Targets(f, n) == {e[2] : e \in Succ[f][n]}

\* What validateFlow() lets through: only End stops, an approval's Approved
\* outcome leads on, edges stay inside the flow and lead strictly forward.
ValidFlow(f) ==
  /\ Kind[f][Start] = "instant"
  /\ \A n \in Nodes :
       /\ Kind[f][n] \notin {"end", "absent"} => Succ[f][n] # {}
       /\ Kind[f][n] = "approval" =>
            /\ \E m \in Nodes : <<"approved", m>> \in Succ[f][n]
            /\ Succ[f][n] \subseteq {"approved", "rejected"} \X Nodes
       /\ \A m \in Targets(f, n) : Kind[f][m] # "absent"
  /\ \E rank \in [Nodes -> 1 .. Cardinality(Nodes)] :
       \A n \in Nodes : \A m \in Targets(f, n) : rank[n] < rank[m]

ASSUME FlowAssumption ==
  /\ IsFiniteSet(Nodes)
  /\ Start \in Nodes /\ NoNode \notin Nodes /\ NoFlow \notin Flows
  /\ Kind \in [Flows -> [Nodes -> Kinds]]
  /\ Succ \in [Flows -> [Nodes -> SUBSET (Outcomes \X Nodes)]]
  /\ \A f \in Flows : ValidFlow(f)
  /\ MaxNodes \in Nat /\ MaxEdits \in Nat

VARIABLES
  \* the row of pipeline_runs
  status,     \* "none" before the run is started
  current,    \* state.current
  executed,   \* state.executed
  fresh,      \* state.touched_at is less than 55 minutes old
  \* the row of pipelines
  flow,       \* the stored workflow, or NoFlow when it is a plain pipeline
  edits,      \* how often it was edited
  \* executors in memory
  pc, node, count, graph,
  \* history
  stopped,    \* a user's cancel was accepted
  late,       \* nodes whose body was run since the last one
  pauses,     \* how often the run was paused at an approval
  decisions,  \* how often a waiting run was claimed by a decision
  broken      \* a server died or a database call failed

row == <<status, current, executed, fresh>>
exec == <<pc, node, count, graph>>
history == <<stopped, late, pauses, decisions, broken>>
vars == <<row, flow, edits, exec, history>>

Init ==
  /\ status = "none" /\ current = NoNode /\ executed = 0 /\ fresh = TRUE
  /\ flow \in Flows /\ edits = 0
  /\ pc = [s \in Servers |-> "idle"]
  /\ node = [s \in Servers |-> NoNode]
  /\ count = [s \in Servers |-> 0]
  /\ graph = [s \in Servers |-> NoFlow]
  /\ stopped = FALSE /\ late = 0 /\ pauses = 0 /\ decisions = 0
  /\ broken = FALSE

\* Executors that may still write the row, and those whose last save is recent.
Busy(s) == pc[s] # "idle"
Moving(s) == pc[s] \in {"check", "node", "work", "save", "fail"}

\* edges.find(from, branch)?.to ?? null
Edge(f, n, b) ==
  IF \E m \in Nodes : <<b, m>> \in Succ[f][n]
  THEN CHOOSE m \in Nodes : <<b, m>> \in Succ[f][n]
  ELSE NoNode

Goto(s, label) == pc' = [pc EXCEPT ![s] = label]

\* History: a server dies or a database call fails.
Broke == broken' = TRUE /\ UNCHANGED <<stopped, late, pauses, decisions>>

-----------------------------------------------------------------------------
\* startFlow(): the row is inserted as running and an executor takes it.
StartRun(s) ==
  /\ status = "none" /\ flow # NoFlow /\ pc[s] = "idle"
  /\ status' = "running" /\ current' = Start /\ executed' = 0 /\ fresh' = TRUE
  /\ Goto(s, "check")
  /\ node' = [node EXCEPT ![s] = Start]
  /\ count' = [count EXCEPT ![s] = 0]
  /\ graph' = [graph EXCEPT ![s] = flow]
  /\ UNCHANGED <<flow, edits, history>>

\* Faulty variant, for mutation checks: the loop never looks for a cancel.
CheckIgnoresCancel(s) ==
  /\ pc[s] = "check"
  /\ count' = [count EXCEPT ![s] = @ + 1]
  /\ Goto(s, IF node[s] = NoNode \/ count[s] >= MaxNodes THEN "fail" ELSE "node")
  /\ UNCHANGED <<row, flow, edits, node, graph, history>>

\* The top of the loop: stop if cancelled, fail past the node limit or when the
\* walk fell off the graph, otherwise begin the node.
Check(s) ==
  /\ pc[s] = "check"
  /\ \/ /\ node[s] # NoNode /\ status = "cancelled"
        /\ Goto(s, "idle")
        /\ UNCHANGED count
     \/ /\ node[s] = NoNode \/ status # "cancelled"
        /\ count' = [count EXCEPT ![s] = @ + 1]
        /\ Goto(s, IF node[s] = NoNode \/ count[s] >= MaxNodes THEN "fail" ELSE "node")
  /\ UNCHANGED <<row, flow, edits, node, graph, history>>

\* save(): the executor's node and count, touched now.  The status is not set.
Save(s) ==
  /\ current' = node[s] /\ executed' = count[s] /\ fresh' = TRUE
  /\ UNCHANGED status

KindAt(s) == Kind[graph[s]][node[s]]

\* History: the body of a node is run.
CountLate == late' = IF stopped THEN late + 1 ELSE late

\* Faulty variant: next() is asked for a branch the node does not have.
TakeEdgeWrongBranch(s) ==
  \E m \in Targets(graph[s], node[s]) \union {NoNode} : node' = [node EXCEPT ![s] = m]

\* The step is answered: any edge of the node may be the one taken.
TakeEdge(s) ==
  LET to == Targets(graph[s], node[s]) IN
  \E m \in IF to = {} THEN {NoNode} ELSE to : node' = [node EXCEPT ![s] = m]

\* Steps answered on the spot.
Instant(s) ==
  /\ pc[s] = "node" /\ KindAt(s) = "instant"
  /\ TakeEdge(s)
  /\ Goto(s, "save")
  /\ CountLate
  /\ UNCHANGED <<row, flow, edits, count, graph, stopped, pauses, decisions, broken>>

\* Steps that call a model save first, unless their agent was deleted ...
BeginWork(s) ==
  /\ pc[s] = "node" /\ KindAt(s) = "model"
  /\ \/ Save(s) /\ Goto(s, "work")
     \/ Goto(s, "fail") /\ UNCHANGED row
  /\ CountLate
  /\ UNCHANGED <<flow, edits, node, count, graph, stopped, pauses, decisions, broken>>

\* ... then take its answer, or the failure of the step.
EndWork(s) ==
  /\ pc[s] = "work"
  /\ \/ TakeEdge(s) /\ Goto(s, "save")
     \/ Goto(s, "fail") /\ UNCHANGED node
  /\ UNCHANGED <<row, flow, edits, count, graph, history>>

\* The save that ends every step but approval and end.
SaveStep(s) ==
  /\ pc[s] = "save"
  /\ Save(s)
  /\ Goto(s, "check")
  /\ UNCHANGED <<flow, edits, node, count, graph, history>>

\* Approval: the row waits, whatever its status was; the executor is done.
Pause(s) ==
  /\ pc[s] = "node" /\ KindAt(s) = "approval"
  /\ status' = "waiting"
  /\ current' = node[s] /\ executed' = count[s] /\ fresh' = TRUE
  /\ pauses' = pauses + 1
  /\ CountLate
  /\ Goto(s, "idle")
  /\ UNCHANGED <<flow, edits, node, count, graph, stopped, decisions, broken>>

\* endRun(): the final status is written, whatever the status was.
EndRun(s, final, n) ==
  /\ status' = final
  /\ current' = n
  /\ Goto(s, "idle")
  /\ UNCHANGED <<flow, edits, node, graph, history>>

Finish(s) ==
  /\ pc[s] = "node" /\ KindAt(s) = "end"
  /\ EndRun(s, "succeeded", NoNode)
  /\ executed' = count[s]
  /\ UNCHANGED <<fresh, count>>

\* Faulty variant: the failure is only logged.
FailSilently(s) ==
  /\ pc[s] = "fail"
  /\ Goto(s, "idle")
  /\ UNCHANGED <<row, flow, edits, node, count, graph, history>>

\* The catch of run(): the row fails; if even that write fails it stays as it is.
Fail(s) ==
  /\ pc[s] = "fail"
  /\ \/ /\ EndRun(s, "failed", node[s])
        /\ executed' = count[s]
        /\ UNCHANGED <<fresh, count>>
     \/ /\ Goto(s, "idle")
        /\ Broke
        /\ UNCHANGED <<row, flow, edits, node, count, graph>>

\* A database call of the loop fails before it takes effect.
DbError(s) ==
  /\ pc[s] \in {"check", "node", "save"}
  /\ Goto(s, "fail")
  /\ Broke
  /\ UNCHANGED <<row, flow, edits, node, count, graph>>

-----------------------------------------------------------------------------
\* Faulty variant: the waiting row is read, not taken.
ClaimByReading(s) ==
  /\ pc[s] = "idle" /\ status = "waiting"
  /\ decisions' = decisions + 1
  /\ node' = [node EXCEPT ![s] = current]
  /\ count' = [count EXCEPT ![s] = executed]
  /\ Goto(s, "claimed")
  /\ UNCHANGED <<row, flow, edits, graph, stopped, late, pauses, broken>>

\* decide(), first await: claimWaiting takes the row only if it waits.
Claim(s) ==
  /\ pc[s] = "idle" /\ status = "waiting"
  /\ status' = "running"
  /\ decisions' = decisions + 1
  /\ node' = [node EXCEPT ![s] = current]
  /\ count' = [count EXCEPT ![s] = executed]
  /\ Goto(s, "claimed")
  /\ UNCHANGED <<current, executed, fresh, flow, edits, graph, stopped, late, pauses, broken>>

\* decide(), the rest: record the decision on the workflow as it is now.
Decide(s) ==
  /\ pc[s] = "claimed"
  /\ \/ /\ flow = NoFlow \/ (flow # NoFlow /\ Kind[flow][node[s]] # "approval")
        /\ EndRun(s, "failed", current)
        /\ UNCHANGED <<executed, fresh, count>>
     \/ /\ flow # NoFlow /\ Kind[flow][node[s]] = "approval"
        /\ \E b \in {"approved", "rejected"} :
             LET to == Edge(flow, node[s], b) IN
             \/ /\ to = NoNode
                /\ EndRun(s, "rejected", NoNode)
                /\ fresh' = TRUE
                /\ UNCHANGED <<executed, count>>
             \/ /\ to # NoNode
                /\ current' = to /\ fresh' = TRUE
                /\ node' = [node EXCEPT ![s] = to]
                /\ graph' = [graph EXCEPT ![s] = flow]
                /\ Goto(s, "check")
                /\ UNCHANGED <<status, executed, flow, edits, count, history>>
     \/ \* one of its database calls fails: the caller gets an error
        /\ Goto(s, "idle")
        /\ Broke
        /\ UNCHANGED <<row, flow, edits, node, count, graph>>

\* Faulty variant: any run can be cancelled.
CancelAnyRun ==
  /\ status # "none"
  /\ status' = "cancelled"
  /\ stopped' = TRUE
  /\ late' = 0
  /\ UNCHANGED <<current, executed, fresh, flow, edits, exec, pauses, decisions, broken>>

\* cancel(): accepted while the run is running or waiting.
Cancel ==
  /\ status \in {"running", "waiting"}
  /\ status' = "cancelled"
  /\ stopped' = TRUE
  /\ late' = 0
  /\ UNCHANGED <<current, executed, fresh, flow, edits, exec, pauses, decisions, broken>>

\* update(): the owner edits the workflow, or turns it back into a pipeline.
Edit ==
  /\ edits < MaxEdits
  /\ flow' \in (Flows \union {NoFlow}) \ {flow}
  /\ edits' = edits + 1
  /\ UNCHANGED <<row, exec, history>>

-----------------------------------------------------------------------------
\* 55 minutes pass without a save.  Every step of a live executor is bounded by
\* far less, so only a run that nobody moves along grows stale.
Age ==
  /\ fresh /\ status \in {"running", "waiting"}
  /\ ~ \E s \in Servers : Moving(s)
  /\ fresh' = FALSE
  /\ UNCHANGED <<status, current, executed, flow, edits, exec, history>>

\* failInterruptedRuns(), when any server starts.
Sweep ==
  /\ status = "running" /\ ~fresh
  /\ status' = "failed"
  /\ UNCHANGED <<current, executed, fresh, flow, edits, exec, history>>

\* A server dies: what it executed is gone, the row stays as it was saved.
Crash(s) ==
  /\ Busy(s)
  /\ Goto(s, "idle")
  /\ Broke
  /\ UNCHANGED <<row, flow, edits, node, count, graph>>

Step(s) ==
  \/ Check(s) \/ Instant(s) \/ BeginWork(s) \/ EndWork(s) \/ SaveStep(s)
  \/ Pause(s) \/ Finish(s) \/ Fail(s)

Next ==
  \/ \E s \in Servers :
       \/ StartRun(s) \/ Step(s) \/ DbError(s) \/ Claim(s) \/ Decide(s) \/ Crash(s)
  \/ Cancel \/ Edit \/ Age \/ Sweep

Spec == Init /\ [][Next]_vars

\* A live server finishes what it began: every step is bounded by a timeout.
Fairness == \A s \in Servers : WF_vars(Step(s)) /\ WF_vars(Decide(s))

FairSpec == Spec /\ Fairness

-----------------------------------------------------------------------------
\* The shape of the state.
TypeOK ==
  /\ status \in {"none", "running", "waiting"} \union Final
  /\ current \in Nodes \union {NoNode} /\ executed \in Nat /\ fresh \in BOOLEAN
  /\ flow \in Flows \union {NoFlow} /\ edits \in 0 .. MaxEdits
  /\ pc \in [Servers -> {"idle", "check", "node", "work", "save", "fail", "claimed"}]
  /\ node \in [Servers -> Nodes \union {NoNode}]
  /\ count \in [Servers -> Nat]
  /\ graph \in [Servers -> Flows \union {NoFlow}]
  /\ stopped \in BOOLEAN /\ late \in Nat /\ pauses \in Nat /\ decisions \in Nat
  /\ broken \in BOOLEAN

\* "claimWaiting ... so two clicks (or two servers) can't both continue it": the
\* run is never moved along by two servers, whoever decides, cancels or dies.
OneExecutor ==
  \A s, t \in Servers : Busy(s) /\ Busy(t) => s = t

\* Each pause is decided at most once, and a run that waits has exactly one
\* undecided pause, at a node that was an approval, with nobody working on it.
EachPauseDecidedOnce ==
  /\ decisions <= pauses /\ pauses <= decisions + 1
  /\ status = "waiting" =>
       /\ pauses = decisions + 1
       /\ \E f \in Flows : Kind[f][current] = "approval"
       /\ \A s \in Servers : ~Busy(s)

\* "So no run can dead-end" (flow_validate.ts), also when a run goes on in a
\* workflow edited while it waited: the executor stands on a node of its graph.
NeverFallsOffTheGraph ==
  \A s \in Servers :
    pc[s] \in {"check", "node", "work"} =>
      node[s] # NoNode /\ Kind[graph[s]][node[s]] # "absent"

\* While a user's cancel stands, at most one more node is run, on all servers
\* together: the one whose check had passed before the cancel.
CancelStopsSoon == status = "cancelled" => late <= 1

\* A run that succeeded or was rejected keeps that result for good.
ResultsAreFinal ==
  [][(status \in {"succeeded", "rejected"}) => status' = status]_vars

\* What keeps a run in order on all servers together: one executor, decisions
\* only of what was asked, never off the graph, cancels that are heeded, and
\* results that stay.
RunSafety ==
  /\ [](OneExecutor /\ EachPauseDecidedOnce /\ NeverFallsOffTheGraph /\ CancelStopsSoon)
  /\ ResultsAreFinal

\* "cancelled: stopped by the user" -- a cancelled run stays cancelled.
CancelledIsFinal == [][status = "cancelled" => status' = "cancelled"]_vars

\* While servers live and the database answers, a started run comes to rest,
\* also past the node limit: it ends or waits for a decision.
RunsComeToRest ==
  status = "running" ~> status \in Final \union {"waiting"} \/ broken
=============================================================================
