---------------------------- MODULE WorkflowsProofs ----------------------------
(***************************************************************************)
(* Proofs about what runs by a schedule or a trigger, for any number of    *)
(* replicas, runs, schedules, crashes and ticks: FlowRuns, then            *)
(* AgentSchedules; and about the studio's canvas, for any nodes,           *)
(* connections and plugged-in settings: StudioCanvas.                      *)
(***************************************************************************)
EXTENDS FlowRuns, AgentSchedules, StudioCanvas, SequenceFacts, FiniteSetTheorems, TLAPS

\* An edge leads to a node or to the end.
LEMMA EdgeType ==
  ASSUME NEW f \in Flows, NEW n \in Nodes, NEW b
  PROVE  Edge(f, n, b) \in Nodes \union {NoNode}
BY DEF Edge

\* Taking an edge puts the server on a node, or on none.
LEMMA TakeEdgeType ==
  ASSUME NEW s \in Servers, TypeOK, TakeEdge(s),
         graph[s] \in Flows, node[s] \in Nodes
  PROVE  node' \in [Servers -> Nodes \union {NoNode}]
<1>1. Targets(graph[s], node[s]) \subseteq Nodes
  BY FlowAssumption DEF Targets
<1>2. QED
  BY <1>1 DEF TakeEdge, TypeOK

(***************************************************************************)
(* The invariant.  An executor that runs nodes has a graph and (outside    *)
(* the loop's head and its saves) a node of it; two servers are never busy *)
(* with the run; and a row that is not started, waits, or ended well has   *)
(* nobody working on it.  The last part carries the first through Claim:   *)
(* taking a waiting row makes its taker the only busy server.              *)
(***************************************************************************)
ExecInv ==
  /\ \A s \in Servers :
       /\ pc[s] \in {"check", "node", "work", "save"} => graph[s] \in Flows
       /\ pc[s] \in {"node", "work", "claimed"} => node[s] \in Nodes
  /\ status = "waiting" => current \in Nodes
  /\ OneExecutor
  /\ status \in {"none", "waiting", "succeeded", "rejected"} =>
       \A s \in Servers : ~Busy(s)

\* The initial state.
LEMMA FlowInit == Init => TypeOK /\ ExecInv
<1> SUFFICES ASSUME Init PROVE TypeOK /\ ExecInv
  OBVIOUS
<1>1. \A s \in Servers : pc[s] = "idle"
  BY DEF Init
<1>2. TypeOK
  <2>1. /\ pc \in [Servers -> {"idle", "check", "node", "work", "save", "fail", "claimed"}]
        /\ node \in [Servers -> Nodes \union {NoNode}]
        /\ count \in [Servers -> Nat]
        /\ graph \in [Servers -> Flows \union {NoFlow}]
    BY DEF Init
  <2>2. edits \in 0 .. MaxEdits
    BY FlowAssumption DEF Init
  <2>3. QED
    BY <2>1, <2>2 DEF Init, TypeOK
<1>3. ExecInv
  BY <1>1 DEF Init, ExecInv, OneExecutor, Busy
<1>4. QED
  BY <1>2, <1>3

\* Every step of every actor keeps the types and the invariant.
LEMMA FlowStep == TypeOK /\ ExecInv /\ [Next]_vars => TypeOK' /\ ExecInv'
<1> SUFFICES ASSUME TypeOK, ExecInv, [Next]_vars PROVE TypeOK' /\ ExecInv'
  OBVIOUS
<1> USE FlowAssumption
    DEF TypeOK, ExecInv, OneExecutor, Busy, Final, row, exec, history, Broke, Goto, CountLate
<1>1. ASSUME NEW s \in Servers, StartRun(s) PROVE TypeOK' /\ ExecInv'
  BY <1>1 DEF StartRun
<1>2. ASSUME NEW s \in Servers, Check(s) PROVE TypeOK' /\ ExecInv'
  <2>1. CASE pc' = [pc EXCEPT ![s] = "idle"] /\ UNCHANGED count
    BY <1>2, <2>1 DEF Check
  <2>2. CASE /\ count' = [count EXCEPT ![s] = @ + 1]
             /\ pc' = [pc EXCEPT ![s] = "fail"]
    BY <1>2, <2>2 DEF Check
  <2>3. CASE /\ node[s] # NoNode
             /\ count' = [count EXCEPT ![s] = @ + 1]
             /\ pc' = [pc EXCEPT ![s] = "node"]
    BY <1>2, <2>3 DEF Check
  <2>4. QED
    BY <1>2, <2>1, <2>2, <2>3 DEF Check
<1>3. ASSUME NEW s \in Servers, Instant(s) PROVE TypeOK' /\ ExecInv'
  BY <1>3, TakeEdgeType DEF Instant
<1>4. ASSUME NEW s \in Servers, BeginWork(s) PROVE TypeOK' /\ ExecInv'
  <2>1. CASE Save(s) /\ Goto(s, "work")
    BY <1>4, <2>1 DEF BeginWork, Save
  <2>2. CASE Goto(s, "fail") /\ UNCHANGED row
    BY <1>4, <2>2 DEF BeginWork
  <2>3. QED
    BY <1>4, <2>1, <2>2 DEF BeginWork
<1>5. ASSUME NEW s \in Servers, EndWork(s) PROVE TypeOK' /\ ExecInv'
  BY <1>5, TakeEdgeType DEF EndWork
<1>6. ASSUME NEW s \in Servers, SaveStep(s) PROVE TypeOK' /\ ExecInv'
  BY <1>6 DEF SaveStep, Save
<1>7. ASSUME NEW s \in Servers, Pause(s) PROVE TypeOK' /\ ExecInv'
  BY <1>7 DEF Pause
<1>8. ASSUME NEW s \in Servers, Finish(s) PROVE TypeOK' /\ ExecInv'
  BY <1>8 DEF Finish, EndRun
<1>9. ASSUME NEW s \in Servers, Fail(s) PROVE TypeOK' /\ ExecInv'
  <2>1. CASE EndRun(s, "failed", node[s]) /\ executed' = count[s] /\ UNCHANGED <<fresh, count>>
    BY <1>9, <2>1 DEF Fail, EndRun
  <2>2. CASE Goto(s, "idle") /\ Broke /\ UNCHANGED <<row, flow, edits, node, count, graph>>
    BY <1>9, <2>2 DEF Fail
  <2>3. QED
    BY <1>9, <2>1, <2>2 DEF Fail
<1>10. ASSUME NEW s \in Servers, DbError(s) PROVE TypeOK' /\ ExecInv'
  BY <1>10 DEF DbError
<1>11. ASSUME NEW s \in Servers, Claim(s) PROVE TypeOK' /\ ExecInv'
  BY <1>11 DEF Claim
<1>12. ASSUME NEW s \in Servers, Decide(s) PROVE TypeOK' /\ ExecInv'
  <2>1. pc[s] = "claimed" /\ node[s] \in Nodes
    BY <1>12 DEF Decide
  <2>2. CASE EndRun(s, "failed", current) /\ UNCHANGED <<executed, fresh, count>>
    BY <2>1, <2>2 DEF EndRun
  <2>3. CASE /\ EndRun(s, "rejected", NoNode)
             /\ fresh' = TRUE /\ UNCHANGED <<executed, count>>
    BY <2>1, <2>3 DEF EndRun
  <2>4. ASSUME flow # NoFlow, NEW b, Edge(flow, node[s], b) # NoNode,
               current' = Edge(flow, node[s], b), fresh' = TRUE,
               node' = [node EXCEPT ![s] = Edge(flow, node[s], b)],
               graph' = [graph EXCEPT ![s] = flow],
               pc' = [pc EXCEPT ![s] = "check"],
               UNCHANGED <<status, executed, flow, edits, count, history>>
        PROVE  TypeOK' /\ ExecInv'
    <3>1. Edge(flow, node[s], b) \in Nodes
      BY <2>1, <2>4, EdgeType
    <3>2. TypeOK'
      BY <2>4, <3>1
    <3>3. ExecInv'
      BY <2>1, <2>4, <3>1
    <3>4. QED
      BY <3>2, <3>3
  <2>5. CASE Goto(s, "idle") /\ Broke /\ UNCHANGED <<row, flow, edits, node, count, graph>>
    BY <2>1, <2>5
  <2>6. QED
    BY <1>12, <2>2, <2>3, <2>4, <2>5 DEF Decide
<1>13. ASSUME NEW s \in Servers, Crash(s) PROVE TypeOK' /\ ExecInv'
  BY <1>13 DEF Crash
<1>14. CASE Cancel \/ Age \/ Sweep
  <2>1. CASE Cancel
    BY <2>1 DEF Cancel
  <2>2. CASE Age
    BY <2>2 DEF Age
  <2>3. CASE Sweep
    BY <2>3 DEF Sweep
  <2>4. QED
    BY <1>14, <2>1, <2>2, <2>3
<1>15. CASE Edit
  BY <1>15 DEF Edit
<1>16. CASE UNCHANGED vars
  BY <1>16 DEF vars
<1>17. QED
  BY <1>1, <1>2, <1>3, <1>4, <1>5, <1>6, <1>7, <1>8, <1>9, <1>10, <1>11,
     <1>12, <1>13, <1>14, <1>15, <1>16 DEF Next, Step

\* The invariant holds always.
LEMMA FlowInvariant == Spec => [](TypeOK /\ ExecInv)
BY FlowInit, FlowStep, PTL DEF Spec

\* The shape of the state is kept by every handler.
THEOREM FlowTypeCorrect == Spec => []TypeOK
BY FlowInvariant, PTL

\* A run is never moved along by two servers at once.
THEOREM FlowOneExecutor == Spec => []OneExecutor
<1>1. ExecInv => OneExecutor
  BY DEF ExecInv
<1>2. QED
  BY <1>1, FlowInvariant, PTL

\* A run that succeeded or was rejected keeps that result for good.
THEOREM FlowResultsAreFinal == Spec => ResultsAreFinal
<1>1. TypeOK /\ ExecInv /\ [Next]_vars
        => [(status \in {"succeeded", "rejected"}) => status' = status]_vars
  <2> SUFFICES ASSUME ExecInv, [Next]_vars, status \in {"succeeded", "rejected"}
               PROVE  status' = status
    OBVIOUS
  <2>1. \A s \in Servers : pc[s] = "idle"
    BY DEF ExecInv, Busy
  <2>2. CASE Next
    BY <2>1, <2>2
    DEF Next, Step, StartRun, Check, Instant, BeginWork, EndWork, SaveStep, Pause,
        Finish, Fail, DbError, Claim, Decide, Cancel, Edit, Age, Sweep, Crash,
        row, Busy
  <2>3. CASE UNCHANGED vars
    BY <2>3 DEF vars, row
  <2>4. QED
    BY <2>2, <2>3
<1>2. QED
  BY <1>1, FlowInvariant, PTL DEF Spec, ResultsAreFinal

-----------------------------------------------------------------------------
(***************************************************************************)
(* Pauses and decisions.  A busy server, and a row nobody took up yet,     *)
(* leave no pause undecided; a waiting row leaves exactly one, at a node   *)
(* that was an approval.                                                   *)
(***************************************************************************)
PauseInv ==
  /\ decisions <= pauses /\ pauses <= decisions + 1
  /\ status = "none" => pauses = decisions
  /\ \A s \in Servers : Busy(s) => pauses = decisions
  /\ status = "waiting" =>
       pauses = decisions + 1 /\ \E f \in Flows : Kind[f][current] = "approval"

\* Every step keeps the count of undecided pauses.
LEMMA PauseStep ==
  TypeOK /\ ExecInv /\ PauseInv /\ [Next]_vars => PauseInv'
<1> SUFFICES ASSUME TypeOK, ExecInv, PauseInv, [Next]_vars PROVE PauseInv'
  OBVIOUS
<1> USE DEF TypeOK, ExecInv, OneExecutor, PauseInv, Busy, row, exec, history, Broke, Goto, CountLate
<1>1. ASSUME NEW s \in Servers, StartRun(s) PROVE PauseInv'
  BY <1>1 DEF StartRun
<1>2. ASSUME NEW s \in Servers, Check(s) PROVE PauseInv'
  BY <1>2 DEF Check
<1>3. ASSUME NEW s \in Servers, Instant(s) \/ EndWork(s) PROVE PauseInv'
  BY <1>3 DEF Instant, EndWork
<1>4. ASSUME NEW s \in Servers, BeginWork(s) \/ SaveStep(s) PROVE PauseInv'
  <2>1. UNCHANGED <<status, pauses, decisions>> /\ pc[s] # "idle"
    BY <1>4 DEF BeginWork, SaveStep, Save
  <2>2. \A t \in Servers : Busy(t)' => Busy(t)
    BY <1>4 DEF BeginWork, SaveStep
  <2>3. status # "waiting"
    BY <2>1
  <2>4. QED
    BY <2>1, <2>2, <2>3
<1>5. ASSUME NEW s \in Servers, Pause(s) PROVE PauseInv'
  <2>1. graph[s] \in Flows /\ Kind[graph[s]][node[s]] = "approval"
    BY <1>5 DEF Pause, KindAt
  <2>2. \A t \in Servers : ~Busy(t)'
    BY <1>5 DEF Pause
  <2>3. QED
    BY <1>5, <2>1, <2>2 DEF Pause
<1>6. ASSUME NEW s \in Servers, Finish(s) \/ Fail(s) \/ DbError(s) \/ Crash(s)
      PROVE  PauseInv'
  <2>1. UNCHANGED <<pauses, decisions>> /\ pc[s] # "idle"
    BY <1>6 DEF Finish, Fail, DbError, Crash, EndRun
  <2>2. \A t \in Servers : Busy(t)' => Busy(t)
    BY <1>6 DEF Finish, Fail, DbError, Crash, EndRun
  <2>3. status' \notin {"none", "waiting"}
    BY <1>6 DEF Finish, Fail, DbError, Crash, EndRun
  <2>4. QED
    BY <2>1, <2>2, <2>3
<1>7. ASSUME NEW s \in Servers, Claim(s) PROVE PauseInv'
  BY <1>7 DEF Claim
<1>8. ASSUME NEW s \in Servers, Decide(s) PROVE PauseInv'
  <2>1. UNCHANGED <<pauses, decisions>> /\ pc[s] # "idle"
    BY <1>8 DEF Decide, EndRun
  <2>2. \A t \in Servers : Busy(t)' => Busy(t)
    BY <2>1, <1>8 DEF Decide, EndRun
  <2>3. status' \notin {"none", "waiting"}
    BY <2>1, <1>8 DEF Decide, EndRun
  <2>4. QED
    BY <2>1, <2>2, <2>3
<1>9. CASE Cancel \/ Edit \/ Age \/ Sweep
  BY <1>9 DEF Cancel, Edit, Age, Sweep
<1>10. CASE UNCHANGED vars
  BY <1>10 DEF vars
<1>11. QED
  BY <1>1, <1>2, <1>3, <1>4, <1>5, <1>6, <1>7, <1>8, <1>9, <1>10 DEF Next, Step

\* A waiting run can be decided once, whoever decides, and nobody else works on it.
THEOREM FlowEachPauseDecidedOnce == Spec => []EachPauseDecidedOnce
<1>1. Init => PauseInv
  BY DEF Init, PauseInv, Busy
<1>2. ExecInv /\ PauseInv => EachPauseDecidedOnce
  BY DEF ExecInv, PauseInv, EachPauseDecidedOnce
<1>3. QED
  BY <1>1, <1>2, PauseStep, FlowInvariant, PTL DEF Spec

-----------------------------------------------------------------------------
(***************************************************************************)
(* While a cancel stands and a server has still to run the node it checked *)
(* before, nothing was run since.                                          *)
(***************************************************************************)
CancelInv ==
  status = "cancelled" => late <= 1 /\ \A s \in Servers : pc[s] = "node" => late = 0

\* Every step keeps it: only Check brings a server to a node, and it looks first.
LEMMA CancelStep == TypeOK /\ ExecInv /\ CancelInv /\ [Next]_vars => CancelInv'
<1> SUFFICES ASSUME TypeOK, ExecInv, CancelInv, [Next]_vars PROVE CancelInv'
  OBVIOUS
<1> USE DEF TypeOK, ExecInv, OneExecutor, CancelInv, Busy, row, exec, history, Broke, Goto
<1>1. ASSUME NEW s \in Servers, Instant(s) \/ BeginWork(s) PROVE CancelInv'
  <2>1. \A t \in Servers : pc'[t] # "node"
    BY <1>1 DEF Instant, BeginWork
  <2>2. late' = IF stopped THEN late + 1 ELSE late
    BY <1>1 DEF Instant, BeginWork, CountLate
  <2>3. status' = "cancelled" => late = 0
    BY <1>1 DEF Instant, BeginWork, Save
  <2>4. QED
    BY <2>1, <2>2, <2>3
<1>2. ASSUME NEW s \in Servers, Check(s) PROVE CancelInv'
  BY <1>2 DEF Check
<1>3. ASSUME NEW s \in Servers, EndWork(s) \/ SaveStep(s) \/ DbError(s) \/ Crash(s)
      PROVE  CancelInv'
  <2>1. UNCHANGED <<status, late>>
    BY <1>3 DEF EndWork, SaveStep, Save, DbError, Crash
  <2>2. \A t \in Servers : pc'[t] = "node" => pc[t] = "node"
    BY <1>3 DEF EndWork, SaveStep, DbError, Crash
  <2>3. QED
    BY <2>1, <2>2
<1>4. ASSUME NEW s \in Servers, Pause(s) \/ Finish(s) \/ StartRun(s) \/ Claim(s)
      PROVE  CancelInv'
  BY <1>4 DEF Pause, Finish, EndRun, StartRun, Claim
<1>5. ASSUME NEW s \in Servers, Fail(s) \/ Decide(s) PROVE CancelInv'
  <2>1. status' # "cancelled" \/ UNCHANGED status
    BY <1>5 DEF Fail, Decide, EndRun
  <2>2. UNCHANGED late
    BY <1>5 DEF Fail, Decide, EndRun
  <2>3. \A t \in Servers : pc'[t] = "node" => pc[t] = "node"
    BY <1>5 DEF Fail, Decide, EndRun
  <2>4. QED
    BY <2>1, <2>2, <2>3
<1>6. CASE Cancel \/ Edit \/ Age \/ Sweep
  BY <1>6 DEF Cancel, Edit, Age, Sweep
<1>7. CASE UNCHANGED vars
  BY <1>7 DEF vars
<1>8. QED
  BY <1>1, <1>2, <1>3, <1>4, <1>5, <1>6, <1>7 DEF Next, Step

\* While a user's cancel stands, at most one more node is run.
THEOREM FlowCancelStopsSoon == Spec => []CancelStopsSoon
<1>1. Init => CancelInv
  BY DEF Init, CancelInv
<1>2. CancelInv => CancelStopsSoon
  BY DEF CancelInv, CancelStopsSoon
<1>3. QED
  BY <1>1, <1>2, CancelStep, FlowInvariant, PTL DEF Spec

-----------------------------------------------------------------------------
(***************************************************************************)
(* An executor between two nodes stands on a node of its own graph, and    *)
(* one that waits for a model stands on a node that asks for one.          *)
(***************************************************************************)
OnGraph ==
  \A s \in Servers :
    pc[s] \in {"check", "node", "work", "save"} =>
      /\ node[s] \in Nodes /\ Kind[graph[s]][node[s]] # "absent"
      /\ pc[s] = "work" => Kind[graph[s]][node[s]] = "model"

\* Of a node that is neither absent nor an end, some edge can be taken, and every
\* edge leads to a node the flow has.
LEMMA TakeEdgeOnGraph ==
  ASSUME NEW s \in Servers, TypeOK, TakeEdge(s), UNCHANGED graph,
         graph[s] \in Flows, node[s] \in Nodes,
         Kind[graph[s]][node[s]] \notin {"end", "absent"}
  PROVE  \E m \in Nodes : node' = [node EXCEPT ![s] = m] /\ Kind[graph[s]][m] # "absent"
<1>1. Succ[graph[s]][node[s]] \in SUBSET (Outcomes \X Nodes)
  BY FlowAssumption
<1>2. PICK e \in Succ[graph[s]][node[s]] : TRUE
  BY FlowAssumption DEF ValidFlow
<1>3. Targets(graph[s], node[s]) # {} /\ Targets(graph[s], node[s]) \subseteq Nodes
  BY <1>1, <1>2 DEF Targets
<1>4. \A m \in Targets(graph[s], node[s]) : Kind[graph[s]][m] # "absent"
  BY FlowAssumption, <1>3 DEF ValidFlow
<1>5. QED
  BY <1>3, <1>4 DEF TakeEdge

\* Every step keeps every executor on its graph.
LEMMA OnGraphStep ==
  TypeOK /\ ExecInv /\ OnGraph /\ [Next]_vars => OnGraph'
<1> SUFFICES ASSUME TypeOK, ExecInv, OnGraph, [Next]_vars PROVE OnGraph'
  OBVIOUS
<1> USE DEF TypeOK, OnGraph, exec, history, Broke, Goto, CountLate
<1>1. ASSUME NEW s \in Servers, StartRun(s) PROVE OnGraph'
  <2>1. flow \in Flows /\ Start \in Nodes /\ Kind[flow][Start] = "instant"
    BY <1>1, FlowAssumption DEF StartRun, ValidFlow
  <2>2. QED
    BY <1>1, <2>1 DEF StartRun
<1>2. ASSUME NEW s \in Servers, Check(s) PROVE OnGraph'
  BY <1>2 DEF Check
<1>3. ASSUME NEW s \in Servers, Instant(s) PROVE OnGraph'
  <2>1. graph[s] \in Flows /\ node[s] \in Nodes
    BY <1>3 DEF Instant, ExecInv
  <2>2. PICK m \in Nodes : node' = [node EXCEPT ![s] = m] /\ Kind[graph[s]][m] # "absent"
    BY <1>3, <2>1, TakeEdgeOnGraph DEF Instant, KindAt
  <2>3. QED
    BY <1>3, <2>2 DEF Instant
<1>4. ASSUME NEW s \in Servers, BeginWork(s) \/ SaveStep(s) PROVE OnGraph'
  BY <1>4 DEF BeginWork, SaveStep, KindAt
<1>5. ASSUME NEW s \in Servers, Pause(s) \/ Finish(s) \/ Fail(s) \/ DbError(s) \/ Crash(s)
      PROVE  OnGraph'
  BY <1>5 DEF Pause, Finish, Fail, DbError, Crash, EndRun
<1>6. ASSUME NEW s \in Servers, Claim(s) PROVE OnGraph'
  BY <1>6 DEF Claim
<1>7. ASSUME NEW s \in Servers, Decide(s) PROVE OnGraph'
  <2>1. CASE Goto(s, "idle") /\ UNCHANGED <<node, graph>>
    BY <2>1
  <2>2. ASSUME flow # NoFlow, Kind[flow][node[s]] = "approval",
               NEW b \in {"approved", "rejected"}, NEW to,
               to = Edge(flow, node[s], b), to # NoNode,
               pc[s] = "claimed", pc' = [pc EXCEPT ![s] = "check"],
               node' = [node EXCEPT ![s] = to],
               graph' = [graph EXCEPT ![s] = flow]
        PROVE  OnGraph'
    <3>1. flow \in Flows /\ node[s] \in Nodes
      BY <2>2 DEF ExecInv
    <3>2. to \in Nodes /\ <<b, to>> \in Succ[flow][node[s]]
      BY <2>2 DEF Edge
    <3>3. to \in Targets(flow, node[s])
      BY <3>2 DEF Targets
    <3>4. Kind[flow][to] # "absent"
      BY <3>1, <3>3, FlowAssumption DEF ValidFlow
    <3>5. QED
      BY <2>2, <3>2, <3>4
  <2>3. QED
    BY <1>7, <2>1, <2>2 DEF Decide, EndRun
<1>8. CASE Cancel \/ Edit \/ Age \/ Sweep
  BY <1>8 DEF Cancel, Edit, Age, Sweep
<1>9. CASE UNCHANGED vars
  BY <1>9 DEF vars
<1>10. ASSUME NEW s \in Servers, EndWork(s) PROVE OnGraph'
  <2>1. CASE UNCHANGED <<node, graph>> /\ Goto(s, "fail")
    BY <2>1
  <2>2. CASE TakeEdge(s) /\ Goto(s, "save") /\ UNCHANGED graph
    <3>1. graph[s] \in Flows /\ node[s] \in Nodes
      BY <1>10 DEF EndWork, ExecInv
    <3>2. PICK m \in Nodes : node' = [node EXCEPT ![s] = m] /\ Kind[graph[s]][m] # "absent"
      BY <1>10, <2>2, <3>1, TakeEdgeOnGraph DEF EndWork
    <3>3. QED
      BY <2>2, <3>2
  <2>3. QED
    BY <1>10, <2>1, <2>2 DEF EndWork
<1>11. QED
  BY <1>1, <1>2, <1>3, <1>4, <1>5, <1>6, <1>7, <1>8, <1>9, <1>10 DEF Next, Step

\* "So no run can dead-end": no executor ever stands beside the graph it walks,
\* whatever the workflow was edited to while the run waited.
THEOREM FlowNeverFallsOffTheGraph == Spec => []NeverFallsOffTheGraph
<1>1. Init => OnGraph
  BY DEF Init, OnGraph
<1>2. OnGraph => NeverFallsOffTheGraph
  BY FlowAssumption DEF OnGraph, NeverFallsOffTheGraph
<1>3. QED
  BY <1>1, <1>2, OnGraphStep, FlowInvariant, PTL DEF Spec

\* A run's safety as a whole: one executor, each pause decided once, never off
\* the graph, soon stopped by a cancel, and results that are final.
THEOREM FlowRunSafety == Spec => RunSafety
  BY FlowOneExecutor, FlowEachPauseDecidedOnce, FlowNeverFallsOffTheGraph,
     FlowCancelStopsSoon, FlowResultsAreFinal, PTL DEF RunSafety

-----------------------------------------------------------------------------

(***************************************************************************)
(* The invariant: a slot a tick holds is due, the time its claim would     *)
(* move to is later, and a slot that was started lies behind both the      *)
(* clock and next_run_at -- so that no claim can ever match it again.      *)
(***************************************************************************)
SlotInv ==
  /\ \A v \in Schedulers, s \in Schedules :
       batch[v][s] # NoTime =>
         /\ batch[v][s] <= now
         /\ asking[v] = s => moving[v] \in Times /\ moving[v] > batch[v][s]
  /\ \A v \in Schedulers, s \in Schedules : asking[v] = s => batch[v][s] # NoTime
  /\ \A s \in Schedules, t \in Times :
       ran[s][t] > 0 =>
         /\ ran[s][t] = 1 /\ t <= now
         /\ next[s] # NoTime => next[s] > t

\* Times are numbers.
LEMMA TimesAre ==
  /\ \A t : t \in Times <=> t \in Nat /\ t <= MaxTime + Period
  /\ NoTime \notin Times /\ NoTime \notin Nat /\ NoSchedule \notin Schedules
  /\ MaxTime \in Nat /\ Period \in Nat /\ Period > 0
  /\ MaxScheduleEdits \in Nat /\ MaxManual \in Nat /\ MaxFaults \in Nat
BY ScheduleAssumption DEF Times

\* computeNextRun() answers a time ahead, at most one period away.
LEMMA AheadIs ==
  ASSUME SchedulesTypeOK, NEW t \in Ahead
  PROVE  t \in Times /\ t > now
BY ScheduleAssumption DEF SchedulesTypeOK, Times, Ahead

\* It holds at the start.
LEMMA ScheduleInit == SchedulesInit => SchedulesTypeOK /\ SlotInv
<1> SUFFICES ASSUME SchedulesInit PROVE SchedulesTypeOK /\ SlotInv
  OBVIOUS
<1> USE TimesAre DEF SchedulesInit
<1>1. next \in [Schedules -> Times]
  <2>1. 1 .. Period \subseteq Times
    BY ScheduleAssumption DEF Times
  <2>2. QED
    BY <2>1
<1>2. ran \in [Schedules -> [Times -> Nat]] /\ now \in 0 .. MaxTime
  OBVIOUS
<1>3. scheduleEdits \in 0 .. MaxScheduleEdits /\ presses \in 0 .. MaxManual /\ faults \in 0 .. MaxFaults
  OBVIOUS
<1>4. SchedulesTypeOK
  BY <1>1, <1>2, <1>3 DEF SchedulesTypeOK
<1>5. SlotInv
  BY <1>2 DEF SlotInv
<1>6. QED
  BY <1>4, <1>5

\* Every step keeps the shape of the state.
LEMMA ScheduleType == SchedulesTypeOK /\ SlotInv /\ [SchedulesNext]_scheduleVars => SchedulesTypeOK'
<1> SUFFICES ASSUME SchedulesTypeOK, SlotInv, [SchedulesNext]_scheduleVars PROVE SchedulesTypeOK'
  OBVIOUS
<1> USE TimesAre DEF SchedulesTypeOK, scheduler, bound
<1>1. CASE Clock
  BY <1>1 DEF Clock
<1>2. ASSUME NEW s \in Schedules, EditSchedule(s) PROVE SchedulesTypeOK'
  <2>1. next' \in [Schedules -> Times \union {NoTime}]
    BY <1>2, AheadIs DEF EditSchedule
  <2>2. QED
    BY <1>2, <2>1 DEF EditSchedule
<1>3. ASSUME NEW v \in Schedulers, ReadDue(v) PROVE SchedulesTypeOK'
  BY <1>3 DEF ReadDue, Due
<1>4. ASSUME NEW v \in Schedulers, TooMany(v) PROVE SchedulesTypeOK'
  BY <1>4 DEF TooMany
<1>5. ASSUME NEW v \in Schedulers, NEW s \in Schedules, Skip(v, s) PROVE SchedulesTypeOK'
  BY <1>5 DEF Skip
<1>6. ASSUME NEW v \in Schedulers, NEW s \in Schedules, Ask(v, s) PROVE SchedulesTypeOK'
  <2>1. moving' \in [Schedulers -> Times \union {NoTime}]
    BY <1>6, AheadIs DEF Ask
  <2>2. QED
    BY <1>6, <2>1 DEF Ask
<1>7. ASSUME NEW v \in Schedulers, NEW s \in Schedules, ClaimSchedule(v, s) PROVE SchedulesTypeOK'
  <2>1. batch' \in [Schedulers -> [Schedules -> Times \union {NoTime}]]
    BY <1>7 DEF ClaimSchedule, Answered
  <2>2. asking' \in [Schedulers -> Schedules \union {NoSchedule}]
    BY <1>7 DEF ClaimSchedule, Answered
  <2>3. moving' \in [Schedulers -> Times \union {NoTime}]
    BY <1>7 DEF ClaimSchedule, Answered
  <2>4. next' \in [Schedules -> Times \union {NoTime}]
    BY <1>7 DEF ClaimSchedule, Answered
  <2>5. ran' \in [Schedules -> [Times -> Nat]]
    <3>1. CASE UNCHANGED ran
      BY <3>1
    <3>2. CASE /\ next[s] = batch[v][s]
               /\ ran' = [ran EXCEPT ![s][next[s]] = @ + 1]
      <4>1. next[s] \in Times
        BY <1>7, <3>2 DEF ClaimSchedule, Answered, SlotInv
      <4>2. [ran[s] EXCEPT ![next[s]] = @ + 1] \in [Times -> Nat]
        BY <4>1
      <4>3. QED
        BY <3>2, <4>2
    <3>3. QED
      BY <1>7, <3>1, <3>2 DEF ClaimSchedule
  <2>6. running' \in [Schedulers -> SUBSET Schedules]
    <3>1. CASE UNCHANGED running
      BY <3>1
    <3>2. CASE running' = [running EXCEPT ![v] = @ \union {s}]
      BY <3>2
    <3>3. QED
      BY <1>7, <3>1, <3>2 DEF ClaimSchedule, Begin
  <2>7. going' \in [Schedulers -> [Schedules -> Nat]]
    <3>1. CASE UNCHANGED going
      BY <3>1
    <3>2. CASE going' = [going EXCEPT ![v][s] = @ + 1]
      BY <3>2
    <3>3. QED
      BY <1>7, <3>1, <3>2 DEF ClaimSchedule, Begin
  <2>8. QED
    BY <1>7, <2>1, <2>2, <2>3, <2>4, <2>5, <2>6, <2>7 DEF ClaimSchedule
<1>8. ASSUME NEW v \in Schedulers, NEW s \in Schedules, RunNow(v, s) PROVE SchedulesTypeOK'
  BY <1>8 DEF RunNow, Begin
<1>9. ASSUME NEW v \in Schedulers, NEW s \in Schedules, ScheduledRunEnds(v, s) PROVE SchedulesTypeOK'
  BY <1>9 DEF ScheduledRunEnds
<1>10. ASSUME NEW v \in Schedulers, Abandon(v)
       PROVE  /\ batch' \in [Schedulers -> [Schedules -> Times \union {NoTime}]]
              /\ asking' \in [Schedulers -> Schedules \union {NoSchedule}]
              /\ moving' \in [Schedulers -> Times \union {NoTime}]
              /\ next' \in [Schedules -> Times \union {NoTime}]
              /\ faults' \in 0 .. MaxFaults
  <2>1. faults' \in 0 .. MaxFaults
    BY <1>10 DEF Abandon
  <2>2. next' \in [Schedules -> Times \union {NoTime}]
    BY <1>10 DEF Abandon
  <2>3. QED
    BY <1>10, <2>1, <2>2 DEF Abandon
<1>11. ASSUME NEW v \in Schedulers, ClaimFails(v) PROVE SchedulesTypeOK'
  BY <1>10, <1>11 DEF ClaimFails
<1>12. ASSUME NEW v \in Schedulers, ServerDies(v) PROVE SchedulesTypeOK'
  <2>1. running' \in [Schedulers -> SUBSET Schedules] /\ going' \in [Schedulers -> [Schedules -> Nat]]
    BY <1>12 DEF ServerDies
  <2>2. QED
    BY <1>10, <1>12, <2>1 DEF ServerDies
<1>13. CASE UNCHANGED scheduleVars
  BY <1>13 DEF scheduleVars
<1>14. QED
  BY <1>1, <1>2, <1>3, <1>4, <1>5, <1>6, <1>7, <1>8, <1>9, <1>11, <1>12, <1>13
  DEF SchedulesNext, Tick

\* Every step keeps the invariant.
LEMMA ScheduleStep == SchedulesTypeOK /\ SlotInv /\ [SchedulesNext]_scheduleVars => SlotInv'
<1> SUFFICES ASSUME SchedulesTypeOK, SlotInv, [SchedulesNext]_scheduleVars PROVE SlotInv'
  OBVIOUS
<1> USE TimesAre DEF scheduler, bound
<1>1. CASE Clock
  BY <1>1 DEF Clock, SchedulesTypeOK, SlotInv
<1>2. ASSUME NEW s \in Schedules, EditSchedule(s) PROVE SlotInv'
  <2>1. \A u \in Schedules : next'[u] = next[u] \/ next'[u] = NoTime \/ next'[u] > now
    BY <1>2, AheadIs DEF EditSchedule, SchedulesTypeOK
  <2>2. \A t \in Times : now \in Nat /\ t \in Nat
    BY DEF SchedulesTypeOK
  <2>3. \A u \in Schedules : next'[u] \in Times \union {NoTime}
    BY <1>2, AheadIs DEF EditSchedule, SchedulesTypeOK
  <2>4. QED
    BY <1>2, <2>1, <2>2, <2>3 DEF EditSchedule, SlotInv
<1>3. ASSUME NEW v \in Schedulers, ReadDue(v) PROVE SlotInv'
  <2>1. asking[v] \notin Schedules
    BY <1>3 DEF ReadDue, Looking, SlotInv
  <2>2. QED
    BY <1>3, <2>1 DEF ReadDue, Due, SchedulesTypeOK, SlotInv
<1>4. ASSUME NEW v \in Schedulers, TooMany(v) PROVE SlotInv'
  BY <1>4 DEF TooMany, SchedulesTypeOK, SlotInv
<1>5. ASSUME NEW v \in Schedulers, NEW s \in Schedules, Skip(v, s) PROVE SlotInv'
  BY <1>5 DEF Skip, Earliest, SchedulesTypeOK, SlotInv
<1>6. ASSUME NEW v \in Schedulers, NEW s \in Schedules, Ask(v, s) PROVE SlotInv'
  <2>1. moving'[v] \in Times /\ moving'[v] > now
    BY <1>6, AheadIs DEF Ask, SchedulesTypeOK
  <2>2. batch[v][s] # NoTime
    BY <1>6 DEF Ask, Earliest, Looking
  <2>3. \A u \in Schedulers : u # v => asking'[u] = asking[u] /\ moving'[u] = moving[u]
    BY <1>6 DEF Ask, SchedulesTypeOK
  <2>4. asking'[v] = s
    BY <1>6 DEF Ask, SchedulesTypeOK
  <2>5. now \in Nat /\ \A u \in Schedulers, w \in Schedules : batch[u][w] \in Times \union {NoTime}
    BY DEF SchedulesTypeOK
  <2>6. QED
    BY <1>6, <2>1, <2>2, <2>3, <2>4, <2>5 DEF Ask, SlotInv
<1>7. ASSUME NEW v \in Schedulers, NEW s \in Schedules, ClaimSchedule(v, s) PROVE SlotInv'
  <2>1. /\ \A u \in Schedulers, w \in Schedules :
             batch'[u][w] = IF u = v /\ w = s THEN NoTime ELSE batch[u][w]
        /\ \A u \in Schedulers : u # v => asking'[u] = asking[u] /\ moving'[u] = moving[u]
        /\ asking'[v] = NoSchedule /\ asking[v] = s /\ now' = now
    BY <1>7 DEF ClaimSchedule, Answered, SchedulesTypeOK
  <2>2. CASE UNCHANGED <<next, ran>>
    BY <2>1, <2>2 DEF SlotInv
  <2>3. CASE /\ next[s] = batch[v][s]
             /\ next' = [next EXCEPT ![s] = moving[v]]
             /\ ran' = [ran EXCEPT ![s][next[s]] = @ + 1]
    <3>1. next[s] \in Times /\ next[s] <= now /\ moving[v] \in Times /\ moving[v] > next[s]
      BY <2>1, <2>3 DEF SlotInv, SchedulesTypeOK
    <3>2. ran[s][next[s]] = 0
      BY <3>1 DEF SlotInv, SchedulesTypeOK
    <3>3. \A w \in Schedules, t \in Times :
            ran'[w][t] = IF w = s /\ t = next[s] THEN 1 ELSE ran[w][t]
      BY <2>3, <3>1, <3>2 DEF SchedulesTypeOK
    <3>4. \A w \in Schedules : next'[w] = IF w = s THEN moving[v] ELSE next[w]
      BY <2>3 DEF SchedulesTypeOK
    <3>5. \A w \in Schedules, t \in Times :
            ran'[w][t] > 0 =>
              /\ ran'[w][t] = 1 /\ t <= now
              /\ next'[w] # NoTime => next'[w] > t
      <4> SUFFICES ASSUME NEW w \in Schedules, NEW t \in Times, ran'[w][t] > 0
                   PROVE  /\ ran'[w][t] = 1 /\ t <= now
                          /\ next'[w] # NoTime => next'[w] > t
        OBVIOUS
      <4>1. CASE w = s /\ t = next[s]
        BY <3>1, <3>3, <3>4, <4>1
      <4>2. CASE w = s /\ t # next[s]
        <5>1. ran[s][t] > 0
          BY <3>3, <4>2
        <5>2. ran[s][t] = 1 /\ t <= now /\ next[s] > t
          BY <3>1, <5>1 DEF SlotInv
        <5>3. moving[v] > t
          BY <3>1, <5>2
        <5>4. QED
          BY <3>3, <3>4, <4>2, <5>2, <5>3
      <4>3. CASE w # s
        BY <3>3, <3>4, <4>3 DEF SlotInv
      <4>4. QED
        BY <4>1, <4>2, <4>3
    <3>6. QED
      BY <2>1, <3>5 DEF SlotInv
  <2>4. QED
    BY <1>7, <2>2, <2>3 DEF ClaimSchedule
<1>8. ASSUME NEW v \in Schedulers, NEW s \in Schedules, RunNow(v, s) PROVE SlotInv'
  BY <1>8 DEF RunNow, SlotInv
<1>9. ASSUME NEW v \in Schedulers, NEW s \in Schedules, ScheduledRunEnds(v, s) PROVE SlotInv'
  BY <1>9 DEF ScheduledRunEnds, SlotInv
<1>10. ASSUME NEW v \in Schedulers, Abandon(v), now' = now, ran' = ran PROVE SlotInv'
  <2>1. /\ \A w \in Schedules : batch'[v][w] = NoTime /\ asking'[v] # w
        /\ \A u \in Schedulers : u # v =>
             asking'[u] = asking[u] /\ moving'[u] = moving[u] /\ batch'[u] = batch[u]
    BY <1>10 DEF Abandon, SchedulesTypeOK
  <2>2. CASE UNCHANGED next
    BY <1>10, <2>1, <2>2 DEF SlotInv
  <2>3. ASSUME NEW s \in Schedules, asking[v] = s, next[s] = batch[v][s],
               next' = [next EXCEPT ![s] = moving[v]]
        PROVE  SlotInv'
    <3>1. next[s] \in Times /\ moving[v] \in Times /\ moving[v] > next[s]
      BY <2>3 DEF SlotInv, SchedulesTypeOK
    <3>2. \A w \in Schedules : next'[w] = IF w = s THEN moving[v] ELSE next[w]
      BY <2>3 DEF SchedulesTypeOK
    <3>3. \A t \in Times : ran[s][t] > 0 => moving[v] > t
      BY <3>1 DEF SlotInv
    <3>4. QED
      BY <1>10, <2>1, <3>2, <3>3 DEF SlotInv
  <2>4. QED
    BY <1>10, <2>2, <2>3 DEF Abandon
<1>11. ASSUME NEW v \in Schedulers, ClaimFails(v) PROVE SlotInv'
  BY <1>10, <1>11 DEF ClaimFails
<1>12. ASSUME NEW v \in Schedulers, ServerDies(v) PROVE SlotInv'
  BY <1>10, <1>12 DEF ServerDies
<1>13. CASE UNCHANGED scheduleVars
  BY <1>13 DEF scheduleVars, SlotInv
<1>14. QED
  BY <1>1, <1>2, <1>3, <1>4, <1>5, <1>6, <1>7, <1>8, <1>9, <1>11, <1>12, <1>13
  DEF SchedulesNext, Tick

\* It holds always.
THEOREM ScheduleInvariant == SchedulesSpec => [](SchedulesTypeOK /\ SlotInv)
<1>1. SchedulesTypeOK /\ SlotInv /\ [SchedulesNext]_scheduleVars => (SchedulesTypeOK /\ SlotInv)'
  BY ScheduleType, ScheduleStep
<1>2. QED
  BY ScheduleInit, <1>1, PTL DEF SchedulesSpec

\* The shape of the schedules, the servers and the history is kept by every
\* step of tick(), runNow(), run() and the scheduleEdits.
THEOREM ScheduleTypeCorrect == SchedulesSpec => []SchedulesTypeOK
BY ScheduleInvariant, PTL

\* claimSchedule() lets no slot be started twice, for any number of servers
\* that tick, die, lose answers or are edited under.
THEOREM ScheduleOneRunPerSlot == SchedulesSpec => []OneRunPerSlot
<1>1. SchedulesTypeOK /\ SlotInv => OneRunPerSlot
  BY TimesAre DEF SchedulesTypeOK, SlotInv, OneRunPerSlot
<1>2. QED
  BY ScheduleInvariant, <1>1, PTL

(***************************************************************************)
(* The invariant of the limit: while nobody has pressed "Run now", a claim *)
(* is awaited only by a server with room to spare that is not running the  *)
(* schedule.                                                               *)
(***************************************************************************)
LimitInv ==
  presses = 0 =>
    \A v \in Schedulers :
      /\ IsFiniteSet(running[v]) /\ Cardinality(running[v]) <= MaxParallel
      /\ \A s \in Schedules : going[v][s] = IF s \in running[v] THEN 1 ELSE 0
      /\ asking[v] \in Schedules =>
           asking[v] \notin running[v] /\ Cardinality(running[v]) < MaxParallel

\* It holds at the start.
LEMMA LimitInit == SchedulesInit => LimitInv
<1> SUFFICES ASSUME SchedulesInit PROVE LimitInv
  OBVIOUS
<1>1. IsFiniteSet({}) /\ Cardinality({}) = 0
  BY FS_EmptySet
<1>2. QED
  BY <1>1, ScheduleAssumption DEF SchedulesInit, LimitInv

\* A set grows by one.
LEMMA AddOne ==
  ASSUME NEW S, NEW x, IsFiniteSet(S), x \notin S
  PROVE  IsFiniteSet(S \union {x}) /\ Cardinality(S \union {x}) = Cardinality(S) + 1
BY FS_AddElement

\* Every step keeps it.
LEMMA LimitStep == SchedulesTypeOK /\ LimitInv /\ [SchedulesNext]_scheduleVars => LimitInv'
<1> SUFFICES ASSUME SchedulesTypeOK, LimitInv, [SchedulesNext]_scheduleVars PROVE LimitInv'
  OBVIOUS
<1> USE TimesAre DEF SchedulesTypeOK, LimitInv, scheduler, bound
<1>1. MaxParallel \in Nat \ {0} /\ IsFiniteSet({}) /\ Cardinality({}) = 0
  BY ScheduleAssumption, FS_EmptySet
<1>2. \A S : IsFiniteSet(S) => Cardinality(S) \in Nat
  BY FS_CardinalityType
<1>3. CASE Clock
  BY <1>3 DEF Clock
<1>4. ASSUME NEW s \in Schedules, EditSchedule(s) PROVE LimitInv'
  BY <1>4 DEF EditSchedule
<1>5. ASSUME NEW v \in Schedulers, ReadDue(v) \/ TooMany(v) PROVE LimitInv'
  BY <1>5 DEF ReadDue, TooMany
<1>6. ASSUME NEW v \in Schedulers, NEW s \in Schedules, Skip(v, s) PROVE LimitInv'
  BY <1>6 DEF Skip
<1>7. ASSUME NEW v \in Schedulers, NEW s \in Schedules, Ask(v, s) PROVE LimitInv'
  BY <1>7 DEF Ask
<1>8. ASSUME NEW v \in Schedulers, NEW s \in Schedules, ClaimSchedule(v, s) PROVE LimitInv'
  <2>1. /\ asking[v] = s /\ asking' = [asking EXCEPT ![v] = NoSchedule]
        /\ presses' = presses
    BY <1>8 DEF ClaimSchedule, Answered
  <2>2. CASE UNCHANGED <<running, going>>
    BY <2>1, <2>2
  <2>3. CASE Begin(v, s)
    <3> SUFFICES ASSUME presses = 0, NEW u \in Schedulers
                 PROVE  /\ IsFiniteSet(running'[u]) /\ Cardinality(running'[u]) <= MaxParallel
                        /\ \A t \in Schedules : going'[u][t] = IF t \in running'[u] THEN 1 ELSE 0
                        /\ asking'[u] \in Schedules =>
                             /\ asking'[u] \notin running'[u]
                             /\ Cardinality(running'[u]) < MaxParallel
      BY <2>1
    <3>1. CASE u # v
      BY <2>1, <2>3, <3>1 DEF Begin
    <3>2. CASE u = v
      <4>1. running'[v] = running[v] \union {s} /\ s \notin running[v]
        BY <2>1, <2>3 DEF Begin
      <4>2. IsFiniteSet(running'[v]) /\ Cardinality(running'[v]) = Cardinality(running[v]) + 1
        <5>1. IsFiniteSet(running[v])
          OBVIOUS
        <5>2. /\ IsFiniteSet(running[v] \union {s})
              /\ Cardinality(running[v] \union {s}) = Cardinality(running[v]) + 1
          BY <4>1, <5>1, AddOne
        <5>3. QED
          BY <4>1, <5>2
      <4>3. Cardinality(running'[v]) <= MaxParallel
        BY <1>1, <1>2, <2>1, <4>2
      <4>4. \A t \in Schedules : going'[v][t] = IF t \in running'[v] THEN 1 ELSE 0
        BY <2>1, <2>3, <4>1 DEF Begin
      <4>5. asking'[v] \notin Schedules
        BY <2>1
      <4>6. QED
        BY <3>2, <4>2, <4>3, <4>4, <4>5
    <3>3. QED
      BY <3>1, <3>2
  <2>4. QED
    BY <1>8, <2>2, <2>3 DEF ClaimSchedule
<1>9. ASSUME NEW v \in Schedulers, NEW s \in Schedules, RunNow(v, s) PROVE LimitInv'
  BY <1>9 DEF RunNow
<1>10. ASSUME NEW v \in Schedulers, NEW s \in Schedules, ScheduledRunEnds(v, s) PROVE LimitInv'
  <2>1. /\ running' = [running EXCEPT ![v] = @ \ {s}]
        /\ going' = [going EXCEPT ![v][s] = @ - 1] /\ going[v][s] > 0
        /\ UNCHANGED <<asking, presses>>
    BY <1>10 DEF ScheduledRunEnds, bound
  <2> SUFFICES ASSUME presses = 0, NEW u \in Schedulers
               PROVE  /\ IsFiniteSet(running'[u]) /\ Cardinality(running'[u]) <= MaxParallel
                      /\ \A t \in Schedules : going'[u][t] = IF t \in running'[u] THEN 1 ELSE 0
                      /\ asking'[u] \in Schedules =>
                           /\ asking'[u] \notin running'[u]
                           /\ Cardinality(running'[u]) < MaxParallel
    BY <2>1
  <2>2. CASE u # v
    BY <2>1, <2>2
  <2>3. CASE u = v
    <3>1. running'[v] = running[v] \ {s} /\ s \in running[v]
      BY <2>1
    <3>2. IsFiniteSet(running'[v]) /\ Cardinality(running'[v]) = Cardinality(running[v]) - 1
      BY <3>1, FS_RemoveElement
    <3>3. \A t \in Schedules : going'[v][t] = IF t \in running'[v] THEN 1 ELSE 0
      BY <2>1, <3>1
    <3>4. Cardinality(running'[v]) <= Cardinality(running[v])
      BY <1>2, <3>2
    <3>5. asking'[v] = asking[v]
      BY <2>1
    <3>6. QED
      BY <1>1, <1>2, <2>3, <3>1, <3>2, <3>3, <3>4, <3>5
  <2>4. QED
    BY <2>2, <2>3
<1>11. ASSUME NEW v \in Schedulers, ClaimFails(v) PROVE LimitInv'
  BY <1>11 DEF ClaimFails, Abandon
<1>12. ASSUME NEW v \in Schedulers, ServerDies(v) PROVE LimitInv'
  <2>1. /\ running' = [running EXCEPT ![v] = {}]
        /\ going' = [going EXCEPT ![v] = [s \in Schedules |-> 0]]
        /\ asking' = [asking EXCEPT ![v] = NoSchedule] /\ presses' = presses
    BY <1>12 DEF ServerDies, Abandon
  <2>2. QED
    BY <1>1, <2>1
<1>13. CASE UNCHANGED scheduleVars
  BY <1>13 DEF scheduleVars
<1>14. QED
  BY <1>3, <1>4, <1>5, <1>6, <1>7, <1>8, <1>9, <1>10, <1>11, <1>12, <1>13
  DEF SchedulesNext, Tick

\* While nobody presses "Run now", tick() keeps to MAX_PARALLEL and `running`
\* names exactly the runs in progress, for any limit and number of schedules.
THEOREM ScheduleRunningIsExact == SchedulesSpec => []RunningIsExact
<1>1. LimitInv => RunningIsExact
  BY DEF LimitInv, RunningIsExact
<1>2. SchedulesTypeOK /\ SlotInv /\ LimitInv /\ [SchedulesNext]_scheduleVars => LimitInv'
  BY LimitStep
<1>3. QED
  BY ScheduleInvariant, LimitInit, <1>1, <1>2, PTL DEF SchedulesSpec

\* One run per slot, and a set of running schedules that is exact.
THEOREM SchedulesAreSafe == SchedulesSpec => []ScheduleSafety
  BY ScheduleOneRunPerSlot, ScheduleRunningIsExact, PTL DEF ScheduleSafety

-----------------------------------------------------------------------------
(***************************************************************************)
(* StudioCanvas: the workflow a canvas is compiled to.  What a step leads  *)
(* to is found step by step; a set of steps that grows by every connection *)
(* it has is full after as many rounds as there are steps.                 *)
(***************************************************************************)
Onward(edges, S) == S \union {e.to : e \in {d \in edges : d.from \in S}}
Reaches(r, edges, s) ==
    /\ r \in [0 .. Cardinality(Steps) -> SUBSET Steps] /\ r[0] = {s} /\ r[Cardinality(Steps)] = Reach(edges, s)
    /\ \A n \in 1 .. Cardinality(Steps) : r[n] = Onward(edges, r[n - 1])

LEMMA ReachRuns ==
  ASSUME IsFiniteSet(Steps), NEW edges, \A e \in edges : e.to \in Steps, NEW s \in Steps
  PROVE  \E r : Reaches(r, edges, s)
<1> DEFINE N == Cardinality(Steps)
           V == SUBSET Steps
           onward == [x \in V \X (1 .. N) |-> Onward(edges, x[1])]
           r[n \in 0 .. N] ==
             IF n = 0 THEN {s} ELSE LET before == r[n - 1] IN before \union {e.to : e \in {d \in edges : d.from \in before}}
<1>1. N \in Nat
  BY FS_CardinalityType
<1>2. onward \in [V \X (1 .. N) -> V]
  <2>1. ASSUME NEW S \in V PROVE Onward(edges, S) \in V
    BY DEF Onward
  <2>2. QED
    BY <2>1
<1>3. PICK g : IsRun(g, V, {s}, N, onward)
  <2>1. {s} \in V
    OBVIOUS
  <2> HIDE DEF N, onward, V
  <2>2. QED
    BY <1>1, <1>2, <2>1, RunningFunction, Zenon
<1> g \in [0 .. N -> V] /\ g[0] = {s}
  BY <1>3 DEF IsRun
<1>4. ASSUME NEW n \in 1 .. N
      PROVE  g[n - 1] \in V /\ g[n] = Onward(edges, g[n - 1])
  <2>1. n - 1 \in 0 .. N
    BY <1>1
  <2>2. g[n - 1] \in V
    BY <2>1
  <2>3. g[n] = onward[<<g[n - 1], n>>]
    BY <1>3 DEF IsRun
  <2>4. QED
    BY <2>2, <2>3
<1> HIDE DEF onward
<1>5. g = [n \in 0 .. N |-> IF n = 0 THEN {s}
                           ELSE LET before == g[n - 1] IN before \union {e.to : e \in {d \in edges : d.from \in before}}]
  <2>1. \A n \in 0 .. N : n = 0 \/ n \in 1 .. N
    BY <1>1
  <2> HIDE DEF N
  <2>2. QED
    BY <1>4, <2>1 DEF Onward
<1>6. r = [n \in 0 .. N |-> IF n = 0 THEN {s}
                           ELSE LET before == r[n - 1] IN before \union {e.to : e \in {d \in edges : d.from \in before}}]
  <2> HIDE DEF N
  <2>1. QED
    BY <1>5, Zenon
<1>7. Reach(edges, s) = r[N]
  BY Zenon DEF Reach
<1>8. r[0] = {s} /\ \A n \in 1 .. N : r[n] = Onward(edges, r[n - 1])
  <2>1. 0 \in 0 .. N /\ \A n \in 1 .. N : n \in 0 .. N /\ n # 0
    BY <1>1
  <2> HIDE DEF r, N
  <2>2. QED
    BY <1>6, <2>1 DEF Onward
<1> HIDE DEF r, N
<1> DEFINE T == {n \in Nat : n <= N => r[n] = g[n]}
<1>9. 0 \in T
  BY <1>8
<1>10. ASSUME NEW n \in Nat, n \in T PROVE n + 1 \in T
  <2> SUFFICES ASSUME n + 1 <= N PROVE r[n + 1] = g[n + 1]
    OBVIOUS
  <2>1. n + 1 \in 1 .. N /\ (n + 1) - 1 = n /\ r[n] = g[n]
    BY <1>1, <1>10
  <2>2. QED
    BY <1>4, <1>8, <2>1
<1>11. \A n \in 0 .. N : r[n] = g[n]
  <2>1. Nat \subseteq T
    <3> HIDE DEF T
    <3>1. QED
      BY <1>9, <1>10, SetInduction
  <2>2. QED
    BY <1>1, <2>1
<1>12. Reach(edges, s) = g[N]
  BY <1>1, <1>7, <1>11
<1>13. QED
  BY <1>4, <1>12 DEF Reaches, N, V

\* What is reached is among the steps, and every connection of it leads into it.
LEMMA ReachIsClosed ==
  ASSUME IsFiniteSet(Steps), NEW edges, \A e \in edges : e.to \in Steps, NEW s \in Steps
  PROVE  /\ Reach(edges, s) \in SUBSET Steps /\ s \in Reach(edges, s)
         /\ \A e \in edges : e.from \in Reach(edges, s) => e.to \in Reach(edges, s)
<1> DEFINE N == Cardinality(Steps)
<1>1. N \in Nat
  BY FS_CardinalityType
<1>2. PICK r : Reaches(r, edges, s)
  BY ReachRuns
<1>3. /\ r \in [0 .. N -> SUBSET Steps] /\ r[0] = {s} /\ r[N] = Reach(edges, s)
      /\ \A n \in 1 .. N : r[n] = Onward(edges, r[n - 1])
  BY <1>2 DEF Reaches
<1> HIDE DEF N
<1> DEFINE Full(S) == Onward(edges, S) = S
           T == {n \in Nat : n <= N => s \in r[n] /\ (Full(r[n]) \/ Cardinality(r[n]) >= n + 1)}
<1>4. 0 \in T
  <2>1. Cardinality({s}) = 1
    BY FS_Singleton
  <2>2. s \in r[0] /\ Cardinality(r[0]) >= 0 + 1
    BY <1>3, <2>1
  <2>3. QED
    BY <2>2
<1>5. ASSUME NEW n \in Nat, n \in T PROVE n + 1 \in T
  <2> SUFFICES ASSUME n + 1 <= N PROVE s \in r[n + 1] /\ (Full(r[n + 1]) \/ Cardinality(r[n + 1]) >= (n + 1) + 1)
    OBVIOUS
  <2>1. n \in 0 .. N /\ n + 1 \in 0 .. N /\ n + 1 \in 1 .. N /\ (n + 1) - 1 = n
    BY <1>1
  <2>2. PICK S \in SUBSET Steps, R \in SUBSET Steps : S = r[n] /\ R = r[n + 1] /\ R = Onward(edges, S)
    BY <1>3, <2>1
  <2>3. s \in S /\ (Full(S) \/ Cardinality(S) >= n + 1)
    BY <1>5, <2>1, <2>2
  <2>4. s \in R /\ S \subseteq R
    BY <2>2, <2>3 DEF Onward
  <2>5. CASE Full(S)
    BY <2>2, <2>4, <2>5
  <2>6. CASE ~ Full(S)
    <3>1. S # R
      BY <2>2, <2>6
    <3>2. IsFiniteSet(R)
      BY FS_Subset
    <3>3. IsFiniteSet(S) /\ Cardinality(S) <= Cardinality(R) /\ (Cardinality(R) = Cardinality(S) => R = S)
      BY <2>4, <3>2, FS_Subset
    <3>4. Cardinality(S) \in Nat /\ Cardinality(R) \in Nat
      BY <3>2, <3>3, FS_CardinalityType
    <3>5. Cardinality(R) >= (n + 1) + 1
      BY <2>3, <2>6, <3>1, <3>3, <3>4
    <3>6. QED
      BY <2>2, <2>4, <3>5
  <2>7. QED
    BY <2>5, <2>6
<1>6. N \in T
  <2> HIDE DEF T
  <2>1. Nat \subseteq T
    BY <1>4, <1>5, SetInduction
  <2>2. QED
    BY <1>1, <2>1
<1>7. PICK S \in SUBSET Steps : S = r[N] /\ s \in S /\ (Full(S) \/ Cardinality(S) >= N + 1)
  BY <1>1, <1>3, <1>6
<1>8. Cardinality(S) <= N /\ Cardinality(S) \in Nat
  BY FS_Subset, FS_CardinalityType DEF N
<1>9. Onward(edges, S) = S
  BY <1>1, <1>7, <1>8
<1>10. \A e \in edges : e.from \in S => e.to \in S
  BY <1>9 DEF Onward
<1>11. QED
  BY <1>3, <1>7, <1>10

\* Nothing is reached that a set with the same connections would not hold.
LEMMA ReachIsLeast ==
  ASSUME IsFiniteSet(Steps), NEW edges, \A e \in edges : e.to \in Steps, NEW s \in Steps,
         NEW C, s \in C, \A e \in edges : e.from \in C => e.to \in C
  PROVE  Reach(edges, s) \subseteq C
<1> DEFINE N == Cardinality(Steps)
<1>1. N \in Nat
  BY FS_CardinalityType
<1>2. PICK r : Reaches(r, edges, s)
  BY ReachRuns
<1>3. /\ r \in [0 .. N -> SUBSET Steps] /\ r[0] = {s} /\ r[N] = Reach(edges, s)
      /\ \A n \in 1 .. N : r[n] = Onward(edges, r[n - 1])
  BY <1>2 DEF Reaches
<1> HIDE DEF N
<1> DEFINE T == {n \in Nat : n <= N => r[n] \subseteq C}
<1>4. 0 \in T
  BY <1>3
<1>5. ASSUME NEW n \in Nat, n \in T PROVE n + 1 \in T
  <2> SUFFICES ASSUME n + 1 <= N PROVE r[n + 1] \subseteq C
    OBVIOUS
  <2>1. n + 1 \in 1 .. N /\ (n + 1) - 1 = n
    BY <1>1
  <2>2. r[n + 1] = Onward(edges, r[n])
    BY <1>3, <2>1
  <2>3. n <= N
    BY <1>1
  <2>4. r[n] \subseteq C
    BY <1>5, <2>3
  <2>5. QED
    BY <2>2, <2>4 DEF Onward
<1>6. N \in T
  <2> HIDE DEF T
  <2>1. Nat \subseteq T
    BY <1>4, <1>5, SetInduction
  <2>2. QED
    BY <1>1, <2>1
<1>7. QED
  BY <1>1, <1>3, <1>6

\* A workflow without a loop, in which only Ends lead nowhere, comes to an End.
LEMMA ReachEnds ==
  ASSUME IsFiniteSet(Steps), NEW edges, \A e \in edges : e.to \in Steps, ~Loops(edges),
         \A t \in Steps : KindOfStep(t) = "end" \/ \E e \in edges : e.from = t,
         NEW s \in Steps
  PROVE  \E end \in Reach(edges, s) : KindOfStep(end) = "end"
<1>1. \A t \in Steps : IsFiniteSet(Reach(edges, t)) /\ Cardinality(Reach(edges, t)) \in Nat
  BY ReachIsClosed, FS_Subset, FS_CardinalityType
<1> DEFINE Sizes == {Cardinality(Reach(edges, t)) : t \in Reach(edges, s)}
<1>2. PICK t \in Reach(edges, s) : \A u \in Reach(edges, s) : Cardinality(Reach(edges, t)) <= Cardinality(Reach(edges, u))
  <2>1. Reach(edges, s) \subseteq Steps /\ s \in Reach(edges, s)
    BY ReachIsClosed
  <2>2. Sizes \subseteq Nat /\ Sizes # {}
    BY <1>1, <2>1
  <2>3. PICK n \in Sizes : \A m \in Sizes : n <= m
    <3> HIDE DEF Sizes
    <3>1. QED
      BY <2>2, LeastOf
  <2>4. QED
    BY <2>3
<1>3. t \in Steps /\ \A e \in edges : e.from \in Reach(edges, s) => e.to \in Reach(edges, s)
  BY ReachIsClosed
<1>4. CASE KindOfStep(t) = "end"
  BY <1>4
<1>5. CASE KindOfStep(t) # "end"
  <2>1. PICK e \in edges : e.from = t
    BY <1>3, <1>5
  <2>2. PICK u \in Steps : u = e.to /\ u \in Reach(edges, s)
    BY <1>2, <1>3, <2>1
  <2>3. t \notin Reach(edges, u)
    BY <2>1, <2>2 DEF Loops
  <2>4. t \in Reach(edges, t) /\ u \in Reach(edges, t) /\ \A d \in edges : d.from \in Reach(edges, t) => d.to \in Reach(edges, t)
    BY <1>3, <2>1, <2>2, ReachIsClosed
  <2>5. Reach(edges, u) \subseteq Reach(edges, t)
    BY <2>4, ReachIsLeast
  <2>6. Cardinality(Reach(edges, u)) < Cardinality(Reach(edges, t))
    <3>1. PICK A, B : A = Reach(edges, u) /\ B = Reach(edges, t)
      OBVIOUS
    <3>2. A \in SUBSET B /\ A # B /\ IsFiniteSet(B) /\ Cardinality(A) \in Nat /\ Cardinality(B) \in Nat
      BY <1>1, <1>3, <2>3, <2>4, <2>5, <3>1
    <3>3. Cardinality(A) <= Cardinality(B) /\ Cardinality(A) # Cardinality(B)
      BY <3>2, FS_Subset
    <3>4. QED
      BY <3>1, <3>2, <3>3
  <2>7. Cardinality(Reach(edges, t)) <= Cardinality(Reach(edges, u))
    BY <1>2, <2>2
  <2>8. QED
    BY <1>1, <1>3, <2>2, <2>6, <2>7
<1>6. QED
  BY <1>4, <1>5

Edges == [from : CanvasNodes, branch : {"", "true", "false", "approved", "rejected"}, to : CanvasNodes]

LEMMA SameEdge ==
  ASSUME NEW A, NEW B, NEW d \in [from : A, branch : B, to : A], NEW e \in [from : A, branch : B, to : A],
         d.from = e.from, d.branch = e.branch, d.to = e.to
  PROVE  d = e
OBVIOUS

\* A set with two elements at least.
LEMMA TwoIn ==
  ASSUME NEW S, IsFiniteSet(S), Cardinality(S) > 1
  PROVE  \E x, y \in S : x # y
<1>1. S # {}
  <2>1. Cardinality({}) = 0
    BY FS_EmptySet
  <2>2. QED
    BY <2>1
<1>2. PICK x \in S : TRUE
  BY <1>1
<1>3. S # {x}
  BY FS_Singleton
<1>4. QED
  BY <1>2, <1>3

\* Agents side by side: the connection into each, and the one out of it.
LEMMA SideBySideIs ==
  ASSUME CanvasTypeOK, NEW f \in Fans, SideBySide(f)
  PROVE  /\ f \subseteq drawn /\ Heads(f) \subseteq CanvasNodes
         /\ \E x, y \in Heads(f) : x # y
         /\ \E a, b : f = Fan(a, b)
         /\ \A n \in Heads(f) : \E e \in f : e.to = n /\ Into(drawn, n) = {e}
         /\ Join(f) \in CanvasNodes
         /\ \A n \in Heads(f) : \E e \in drawn : e.to = Join(f) /\ OutOf(drawn, n) = {e}
<1>1. IsFiniteSet(drawn) /\ drawn \subseteq Edges
  BY DEF CanvasTypeOK, Edges
<1>2. PICK a, b : f = Fan(a, b) /\ Cardinality(f) > 1
  BY DEF Fans
<1>3. f \subseteq drawn /\ \A e \in f : e.from = a /\ e.branch = b
  BY <1>2 DEF Fan
<1>4. Heads(f) \subseteq CanvasNodes
  BY <1>1, <1>3 DEF Heads, Edges
<1>5. \E x, y \in Heads(f) : x # y
  <2>1. PICK d, e \in f : d # e
    BY <1>1, <1>2, <1>3, TwoIn, FS_Subset
  <2>2. d \in Edges /\ e \in Edges /\ d.from = e.from /\ d.branch = e.branch
    BY <1>1, <1>3
  <2>3. d.to # e.to
    BY <2>1, <2>2, SameEdge DEF Edges
  <2>4. QED
    BY <2>3 DEF Heads
<1>6. ASSUME NEW n \in Heads(f) PROVE \E e \in f : e.to = n /\ Into(drawn, n) = {e}
  <2>1. IsFiniteSet(Into(drawn, n)) /\ Cardinality(Into(drawn, n)) = 1
    BY <1>1, FS_Subset DEF SideBySide, Into
  <2>2. PICK x : Into(drawn, n) = {x}
    BY <2>1, FS_Singleton
  <2>3. PICK e \in f : e.to = n
    BY DEF Heads
  <2>4. e \in Into(drawn, n)
    BY <1>3, <2>3 DEF Into
  <2>5. QED
    BY <2>2, <2>3, <2>4
<1>7. PICK join \in CanvasNodes : \A n \in Heads(f) : \E e \in OutOf(drawn, n) : e.to = join
  BY DEF SideBySide
<1>8. ASSUME NEW n \in Heads(f) PROVE \E e \in drawn : e.to = join /\ OutOf(drawn, n) = {e}
  <2>1. IsFiniteSet(OutOf(drawn, n)) /\ Cardinality(OutOf(drawn, n)) = 1
    BY <1>1, FS_Subset DEF SideBySide, OutOf
  <2>2. PICK x : OutOf(drawn, n) = {x}
    BY <2>1, FS_Singleton
  <2>3. PICK e \in OutOf(drawn, n) : e.to = join
    BY <1>7
  <2>4. OutOf(drawn, n) \subseteq drawn
    BY DEF OutOf
  <2>5. QED
    BY <2>2, <2>3, <2>4
<1>9. Join(f) = join
  <2>1. \E n \in Heads(f) : \E e \in OutOf(drawn, n) : e.to = join
    BY <1>5, <1>7
  <2>2. \A m : (\E n \in Heads(f) : \E e \in OutOf(drawn, n) : e.to = m) => m = join
    BY <1>8
  <2>3. QED
    BY <2>1, <2>2, Zenon DEF Join
<1>10. QED
  BY <1>2, <1>3, <1>4, <1>5, <1>6, <1>8, <1>9

\* An agent is beside others once; they are its step.
LEMMA StepsOfNodes ==
  ASSUME CanvasTypeOK, \A f \in Fans : SideBySide(f)
  PROVE  /\ \A f \in Fans : \A n \in Heads(f) : StepOf(n) = Heads(f)
         /\ \A n \in CanvasNodes : n \notin Beside => StepOf(n) = {n}
         /\ \A f \in Fans : Join(f) \notin Beside
         /\ \A n \in CanvasNodes : n \in StepOf(n)
<1>1. ASSUME NEW f \in Fans, NEW g \in Fans, NEW n \in Heads(f), n \in Heads(g) PROVE f = g
  <2>1. PICK e : e \in f /\ e \in g
    BY <1>1, SideBySideIs
  <2>2. PICK a, b, c, d : f = Fan(a, b) /\ g = Fan(c, d)
    BY SideBySideIs
  <2>3. QED
    BY <2>1, <2>2 DEF Fan
<1>2. ASSUME NEW f \in Fans, NEW n \in Heads(f) PROVE StepOf(n) = Heads(f)
  <2>1. (CHOOSE g \in Fans : n \in Heads(g)) = f
    BY <1>1, <1>2
  <2>2. QED
    BY <2>1 DEF StepOf
<1>3. ASSUME NEW n \in CanvasNodes, n \notin Beside PROVE StepOf(n) = {n}
  BY <1>3 DEF StepOf, Beside
<1>4. ASSUME NEW f \in Fans, Join(f) \in Beside PROVE FALSE
  <2>1. PICK g \in Fans : Join(f) \in Heads(g)
    BY <1>4 DEF Beside
  <2>2. PICK e : Into(drawn, Join(f)) = {e}
    BY <2>1, SideBySideIs
  <2>3. PICK x \in Heads(f), y \in Heads(f) : x # y
    BY SideBySideIs
  <2>4. PICK d \in drawn : d.to = Join(f) /\ d \in OutOf(drawn, x)
    BY SideBySideIs
  <2>5. PICK c \in drawn : c.to = Join(f) /\ c \in OutOf(drawn, y)
    BY SideBySideIs
  <2>6. d \in Into(drawn, Join(f)) /\ c \in Into(drawn, Join(f)) /\ d.from = x /\ c.from = y
    BY <2>4, <2>5 DEF Into, OutOf
  <2>7. QED
    BY <2>2, <2>3, <2>6
<1>5. ASSUME NEW n \in CanvasNodes PROVE n \in StepOf(n)
  <2>1. CASE n \in Beside
    BY <1>2, <2>1 DEF Beside
  <2>2. QED
    BY <1>3, <2>1
<1>6. QED
  BY <1>2, <1>3, <1>4, <1>5

Ends == {m \in CanvasNodes : KindOf[m] = "end"}

\* A connection is part of the workflow for one of three reasons.
LEMMA CompiledIs ==
  ASSUME NEW d
  PROVE  d \in Compiled <=>
           \/ \E e \in drawn : e.from \notin Beside /\ d = [from |-> {e.from}, branch |-> e.branch, to |-> Target(e.to)]
           \/ \E f \in Fans : d = [from |-> Heads(f), branch |-> "", to |-> Target(Join(f))]
           \/ deliver /\ \E n \in Ends : d = [from |-> Reply(n), branch |-> "", to |-> {n}]
BY DEF Compiled, Ends

\* What a connection leads to holds the node it was drawn to and, "reply" and
\* agents beside that node apart, no other.
LEMMA TargetIs ==
  ASSUME CanvasTypeOK, \A f \in Fans : SideBySide(f), NEW n \in CanvasNodes
  PROVE  /\ n \in Target(n) /\ Target(n) \in Steps
         /\ n \notin Beside => Target(n) \subseteq {n, "reply"}
         /\ \A f \in Fans : n \in Heads(f) => Target(n) = Heads(f)
<1>1. n \in StepOf(n) /\ StepOf(n) \in Steps /\ (n \notin Beside => StepOf(n) = {n}) /\ \A f \in Fans : n \in Heads(f) => StepOf(n) = Heads(f)
  BY StepsOfNodes DEF Steps
<1>2. CASE deliver /\ KindOf[n] = "end"
  <2>1. Target(n) = Reply(n) /\ n \in Ends
    BY <1>2 DEF Target, Ends
  <2>2. Reply(n) = {"reply", n} /\ Reply(n) \in Steps
    BY <1>2, <2>1 DEF Reply, Steps
  <2>3. n \notin Beside
    BY <1>2 DEF Beside, SideBySide
  <2>4. QED
    BY <2>1, <2>2, <2>3 DEF Beside
<1>3. CASE ~ (deliver /\ KindOf[n] = "end")
  <2>1. Target(n) = StepOf(n)
    BY <1>3 DEF Target
  <2>2. QED
    BY <1>1, <2>1
<1>4. QED
  BY <1>2, <1>3

LEMMA StepsAreFinite == IsFiniteSet(Steps)
<1> DEFINE A == {StepOf(n) : n \in CanvasNodes}
           B == {Reply(n) : n \in Ends}
<1>1. IsFiniteSet(CanvasNodes) /\ IsFiniteSet(Ends)
  BY CanvasAssumption, FS_Subset DEF Ends
<1>2. IsFiniteSet(A)
  <2>1. PICK s : s = [n \in CanvasNodes |-> StepOf(n)]
    OBVIOUS
  <2>2. s \in Surjection(CanvasNodes, A)
    BY <2>1 DEF Surjection
  <2> HIDE DEF A
  <2>3. QED
    BY <1>1, <2>2, FS_Surjection
<1>3. IsFiniteSet(B)
  <2>1. PICK s : s = [n \in Ends |-> Reply(n)]
    OBVIOUS
  <2>2. s \in Surjection(Ends, B)
    BY <2>1 DEF Surjection
  <2> HIDE DEF B
  <2>3. QED
    BY <1>1, <2>2, FS_Surjection
<1>4. Steps \subseteq A \union B
  BY DEF Steps, Ends
<1>5. IsFiniteSet(A \union B)
  <2> HIDE DEF A, B
  <2>1. QED
    BY <1>2, <1>3, FS_Union
<1>6. QED
  BY <1>4, <1>5, FS_Subset

\* Everything drawn is in the workflow, and nothing else is.
LEMMA DrawnIsCompiled ==
  ASSUME CanvasTypeOK, \A f \in Fans : SideBySide(f), NEW e \in drawn
  PROVE  \E d \in Compiled : e.from \in d.from /\ e.to \in d.to
<1>1. e.from \in CanvasNodes /\ e.to \in CanvasNodes
  BY DEF CanvasTypeOK
<1>2. e.to \in Target(e.to)
  BY <1>1, TargetIs
<1>3. CASE e.from \notin Beside
  <2>1. PICK d : d = [from |-> {e.from}, branch |-> e.branch, to |-> Target(e.to)]
    OBVIOUS
  <2>2. d \in Compiled
    BY <1>3, <2>1, CompiledIs
  <2>3. QED
    BY <1>2, <2>1, <2>2
<1>4. CASE e.from \in Beside
  <2>1. PICK f \in Fans : e.from \in Heads(f)
    BY <1>4 DEF Beside
  <2>2. e.to = Join(f)
    <3>1. e \in OutOf(drawn, e.from)
      BY DEF OutOf
    <3>2. PICK x : OutOf(drawn, e.from) = {x} /\ x.to = Join(f)
      BY <2>1, SideBySideIs
    <3>3. QED
      BY <3>1, <3>2
  <2>3. PICK d : d = [from |-> Heads(f), branch |-> "", to |-> Target(Join(f))]
    OBVIOUS
  <2>4. d \in Compiled
    BY <2>3, CompiledIs
  <2>5. QED
    BY <1>2, <2>1, <2>2, <2>3, <2>4
<1>5. QED
  BY <1>3, <1>4

LEMMA CompiledIsDrawn ==
  ASSUME CanvasTypeOK, \A f \in Fans : SideBySide(f),
         NEW d \in Compiled, NEW n \in d.from \ {"reply"}, NEW m \in d.to \ {"reply"}
  PROVE  "reply" \in d.from \/ \E e \in drawn : e.from = n /\ e.to = m /\ d.branch \in {"", e.branch}
<1>1. ASSUME NEW e \in drawn, d = [from |-> {e.from}, branch |-> e.branch, to |-> Target(e.to)]
      PROVE  \E c \in drawn : c.from = n /\ c.to = m /\ d.branch \in {"", c.branch}
  <2>1. d.from = {e.from} /\ d.branch = e.branch /\ d.to = Target(e.to) /\ n = e.from /\ e.to \in CanvasNodes
    BY <1>1 DEF CanvasTypeOK
  <2>2. CASE e.to \notin Beside
    <3>1. m = e.to
      BY <2>1, <2>2, TargetIs
    <3>2. QED
      BY <2>1, <3>1
  <2>3. CASE e.to \in Beside
    <3>1. PICK f \in Fans : e.to \in Heads(f)
      BY <2>3 DEF Beside
    <3>2. m \in Heads(f)
      BY <2>1, <3>1, TargetIs
    <3>3. e \in f
      <4>1. e \in Into(drawn, e.to)
        BY DEF Into
      <4>2. PICK x \in f : Into(drawn, e.to) = {x}
        BY <3>1, SideBySideIs
      <4>3. QED
        BY <4>1, <4>2
    <3>4. PICK c \in f : c.to = m
      BY <3>2 DEF Heads
    <3>5. c \in drawn /\ c.from = e.from /\ c.branch = e.branch
      <4>1. PICK a, b : f = Fan(a, b)
        BY SideBySideIs
      <4>2. QED
        BY <3>3, <3>4, <4>1 DEF Fan
    <3>6. QED
      BY <2>1, <3>4, <3>5
  <2>4. QED
    BY <2>2, <2>3
<1>2. ASSUME NEW f \in Fans, d = [from |-> Heads(f), branch |-> "", to |-> Target(Join(f))]
      PROVE  \E c \in drawn : c.from = n /\ c.to = m /\ d.branch \in {"", c.branch}
  <2>1. d.from = Heads(f) /\ d.branch = "" /\ d.to = Target(Join(f)) /\ n \in Heads(f)
    BY <1>2
  <2>2. Join(f) \in CanvasNodes /\ Join(f) \notin Beside
    BY SideBySideIs, StepsOfNodes
  <2>3. m = Join(f)
    BY <2>1, <2>2, TargetIs
  <2>4. PICK c \in drawn : c.to = Join(f) /\ OutOf(drawn, n) = {c}
    BY <2>1, SideBySideIs
  <2>5. c.from = n
    BY <2>4 DEF OutOf
  <2>6. QED
    BY <2>1, <2>3, <2>4, <2>5
<1>3. ASSUME NEW k \in Ends, d = [from |-> Reply(k), branch |-> "", to |-> {k}] PROVE "reply" \in d.from
  BY <1>3 DEF Reply
<1>4. QED
  BY <1>1, <1>2, <1>3, CompiledIs

\* A workflow's connections lead from steps to steps, and there are finitely many.
LEMMA CompiledFits ==
  ASSUME CanvasTypeOK, \A f \in Fans : SideBySide(f)
  PROVE  /\ \A d \in Compiled : d.from \in Steps /\ d.to \in Steps
         /\ IsFiniteSet(Compiled)
<1>1. ASSUME NEW n \in Ends PROVE n \in CanvasNodes /\ n \notin Beside
  BY DEF Ends, Beside, SideBySide
<1>2. ASSUME NEW n \in CanvasNodes, n \notin Beside PROVE {n} \in Steps
  BY <1>2, StepsOfNodes DEF Steps
<1>3. ASSUME NEW f \in Fans PROVE Heads(f) \in Steps
  <2>1. PICK n \in Heads(f) : n \in CanvasNodes /\ StepOf(n) = Heads(f)
    BY SideBySideIs, StepsOfNodes
  <2>2. QED
    BY <2>1 DEF Steps
<1>4. ASSUME NEW d \in Compiled PROVE d.from \in Steps /\ d.to \in Steps
  <2>1. ASSUME NEW e \in drawn, e.from \notin Beside, d = [from |-> {e.from}, branch |-> e.branch, to |-> Target(e.to)]
        PROVE  d.from \in Steps /\ d.to \in Steps
    <3>1. e.from \in CanvasNodes /\ e.to \in CanvasNodes
      BY DEF CanvasTypeOK
    <3>2. QED
      BY <1>2, <2>1, <3>1, TargetIs
  <2>2. ASSUME NEW f \in Fans, d = [from |-> Heads(f), branch |-> "", to |-> Target(Join(f))]
        PROVE  d.from \in Steps /\ d.to \in Steps
    BY <1>3, <2>2, TargetIs, SideBySideIs
  <2>3. ASSUME deliver, NEW n \in Ends, d = [from |-> Reply(n), branch |-> "", to |-> {n}]
        PROVE  d.from \in Steps /\ d.to \in Steps
    <3>1. Reply(n) \in Steps
      BY <2>3 DEF Steps, Ends
    <3>2. QED
      BY <1>1, <1>2, <2>3, <3>1
  <2>4. QED
    BY <2>1, <2>2, <2>3, CompiledIs
<1>5. IsFiniteSet(Compiled)
  <2> DEFINE A == {[from |-> {e.from}, branch |-> e.branch, to |-> Target(e.to)] : e \in drawn}
             B == {[from |-> Heads(f), branch |-> "", to |-> Target(Join(f))] : f \in Fans}
             C == {[from |-> Reply(n), branch |-> "", to |-> {n}] : n \in Ends}
  <2>1. IsFiniteSet(drawn) /\ IsFiniteSet(Ends) /\ IsFiniteSet(Fans)
    <3>1. IsFiniteSet(drawn) /\ IsFiniteSet(Ends)
      BY CanvasAssumption, FS_Subset DEF CanvasTypeOK, Ends
    <3>2. IsFiniteSet(SUBSET drawn) /\ Fans \in SUBSET (SUBSET drawn)
      BY <3>1, FS_SUBSET DEF Fans, Fan
    <3>3. QED
      BY <3>1, <3>2, FS_Subset
  <2>2. IsFiniteSet(A)
    <3>1. PICK s : s = [e \in drawn |-> [from |-> {e.from}, branch |-> e.branch, to |-> Target(e.to)]]
      OBVIOUS
    <3>2. s \in Surjection(drawn, A)
      BY <3>1 DEF Surjection
    <3> HIDE DEF A
    <3>3. QED
      BY <2>1, <3>2, FS_Surjection
  <2>3. IsFiniteSet(B)
    <3>1. PICK s : s = [f \in Fans |-> [from |-> Heads(f), branch |-> "", to |-> Target(Join(f))]]
      OBVIOUS
    <3>2. s \in Surjection(Fans, B)
      BY <3>1 DEF Surjection
    <3> HIDE DEF B
    <3>3. QED
      BY <2>1, <3>2, FS_Surjection
  <2>4. IsFiniteSet(C)
    <3>1. PICK s : s = [n \in Ends |-> [from |-> Reply(n), branch |-> "", to |-> {n}]]
      OBVIOUS
    <3>2. s \in Surjection(Ends, C)
      BY <3>1 DEF Surjection
    <3> HIDE DEF C
    <3>3. QED
      BY <2>1, <3>2, FS_Surjection
  <2>5. Compiled \subseteq A \union (B \union C)
    BY CompiledIs
  <2> HIDE DEF A, B, C
  <2>6. IsFiniteSet(A \union (B \union C))
    BY <2>2, <2>3, <2>4, FS_Union
  <2>7. QED
    BY <2>5, <2>6, FS_Subset
<1>6. QED
  BY <1>4, <1>5

\* As many connections as outcomes: one for each.
LEMMA OneEach ==
  ASSUME NEW S, IsFiniteSet(S), Cardinality(S) = Cardinality({e.branch : e \in S}),
         NEW d \in S, NEW e \in S, d.branch = e.branch
  PROVE  d = e
<1>1. PICK b : b = [x \in S |-> x.branch]
  OBVIOUS
<1>2. PICK T : T = {x.branch : x \in S}
  OBVIOUS
<1>3. b \in Surjection(S, T)
  BY <1>1, <1>2 DEF Surjection
<1>4. b \in Injection(S, T)
  BY <1>2, <1>3, FS_Surjection
<1>5. b[d] = b[e]
  BY <1>1
<1>6. QED
  BY <1>4, <1>5 DEF Injection, IsInjective

LEMMA AcceptedRunsWhatIsDrawn ==
  ASSUME CanvasTypeOK
  PROVE  RunsWhatIsDrawn
<1> SUFFICES ASSUME Saves
    PROVE  /\ \A e \in drawn : \E d \in Compiled : e.from \in d.from /\ e.to \in d.to
           /\ \A d \in Compiled : \A n \in d.from \ {"reply"}, m \in d.to \ {"reply"} :
                "reply" \in d.from \/ \E e \in drawn : e.from = n /\ e.to = m /\ d.branch \in {"", e.branch}
           /\ \A d \in Compiled, e \in Compiled : d.from = e.from /\ d.branch = e.branch => d = e
           /\ \A s \in Steps : \E end \in Reach(Compiled, s) : KindOfStep(end) = "end"
  BY Zenon DEF RunsWhatIsDrawn
<1>1. \A f \in Fans : SideBySide(f)
  BY DEF Saves
<1>2. (\A s \in Steps : Outgoing(Compiled, s)) /\ ~Loops(Compiled)
  BY DEF Saves, Accepted
<1>3. (\A d \in Compiled : d.from \in Steps /\ d.to \in Steps) /\ IsFiniteSet(Compiled)
  BY <1>1, CompiledFits
<1>4. ASSUME NEW d \in Compiled, NEW e \in Compiled, d.from = e.from, d.branch = e.branch PROVE d = e
  <2>1. PICK out : out = OutOf(Compiled, d.from)
    OBVIOUS
  <2>2. d \in out /\ e \in out /\ IsFiniteSet(out)
    BY <1>3, <1>4, <2>1, FS_Subset DEF OutOf
  <2>3. Cardinality(out) = Cardinality({x.branch : x \in out})
    BY <1>2, <1>3, <2>1 DEF Outgoing
  <2>4. QED
    BY <1>4, <2>2, <2>3, OneEach
<1>5. \A t \in Steps : KindOfStep(t) = "end" \/ \E e \in Compiled : e.from = t
  <2> SUFFICES ASSUME NEW t \in Steps, KindOfStep(t) # "end" PROVE \E e \in Compiled : e.from = t
    OBVIOUS
  <2>1. PICK out : out = OutOf(Compiled, t)
    OBVIOUS
  <2>2. PICK branches : branches = {e.branch : e \in out}
    OBVIOUS
  <2>3. \/ branches = {"true", "false"}
        \/ "approved" \in branches
        \/ branches = {""}
    BY <1>2, <2>1, <2>2 DEF Outgoing
  <2>4. PICK e \in out : TRUE
    BY <2>2, <2>3
  <2>5. QED
    BY <2>1, <2>4 DEF OutOf
<1>6. \A s \in Steps : \E end \in Reach(Compiled, s) : KindOfStep(end) = "end"
  BY <1>2, <1>3, <1>5, StepsAreFinite, ReachEnds
<1>7. QED
  BY <1>1, <1>4, <1>6, DrawnIsCompiled, CompiledIsDrawn

(***************************************************************************)
(* StudioCanvas: the settings.  As long as nothing is edited after a       *)
(* project is opened, one node of the agent holds what its row says, and   *)
(* the others hold nothing; so what is merged of them is that row again.   *)
(***************************************************************************)
OpenInv ==
    freshId => \E o \in 1 .. Occurrences :
                 /\ ToSet(subs[o]) = Wanted(settings)
                 /\ \A p \in 1 .. Occurrences : p # o => subs[p] = <<>>

CanvasInv == CanvasTypeOK /\ OpenInv

AgentSettings == [model : {"none"} \union Keys(Plugs, "model"), tools : SUBSET Keys(Plugs, "tool"),
                  mode : {"none", "selected", "all"}, skills : SUBSET (Keys(Plugs, "skill") \ {"*"})]

\* A finite set, as a sequence, holds what it held.
LEMMA SequenceOfSet ==
  ASSUME NEW S, IsFiniteSet(S)
  PROVE  SetToSeq(S) \in Seq(S) /\ ToSet(SetToSeq(S)) = S
<1>1. PICK n \in Nat : n = Cardinality(S)
  BY FS_CardinalityType
<1>2. PICK g : g \in Bijection(1 .. n, S)
  BY <1>1, FS_CardinalityType DEF ExistsBijection
<1>3. g \in [1 .. n -> S] /\ IsInjective(g)
  BY <1>2 DEF Bijection, Injection
<1>4. PICK f \in [1 .. n -> S] : f = SetToSeq(S) /\ IsInjective(f)
  BY <1>1, <1>3 DEF SetToSeq
<1>5. f \in Injection(1 .. n, S)
  BY <1>4 DEF Injection
<1>6. IsFiniteSet(1 .. n) /\ Cardinality(1 .. n) = n
  BY FS_Interval
<1>7. f \in Surjection(1 .. n, S)
  BY <1>1, <1>5, <1>6, FS_Injection
<1>8. \A x \in S : \E k \in 1 .. n : f[k] = x
  BY <1>7 DEF Surjection
<1>9. ToSet(f) = S
  BY <1>4, <1>8 DEF ToSet
<1>10. f \in Seq(S)
  OBVIOUS
<1>11. QED
  BY <1>4, <1>9, <1>10

\* What a row wants is what can be plugged in.
LEMMA WantedFits ==
  ASSUME NEW held \in AgentSettings
  PROVE  /\ Wanted(held) \subseteq Plugs /\ IsFiniteSet(Wanted(held))
         /\ Keys(Wanted(held), "tool") = held.tools
         /\ Keys(Wanted(held), "skill") = IF held.mode = "all" THEN {"*"} ELSE IF held.mode = "selected" THEN held.skills ELSE {}
         /\ Keys(Wanted(held), "model") = {held.model} \ {"none"}
<1>1. held.model \in {"none"} \union Keys(Plugs, "model") /\ held.tools \subseteq Keys(Plugs, "tool") /\ held.skills \subseteq Keys(Plugs, "skill")
  BY DEF AgentSettings
<1>2. \A p \in Plugs : p[1] \in PlugTypes /\ p = <<p[1], p[2]>>
  BY CanvasAssumption
<1>3. \A type, k : k \in Keys(Plugs, type) => <<type, k>> \in Plugs
  BY <1>2 DEF Keys
<1>4. Wanted(held) \subseteq Plugs
  BY <1>1, <1>3, CanvasAssumption DEF Wanted
<1>5. PICK A, B, C :
        /\ A = IF held.model = "none" THEN {} ELSE {<<"model", held.model>>}
        /\ B = {<<"tool", t>> : t \in held.tools}
        /\ C = (IF held.mode = "all" THEN {<<"skill", "*">>} ELSE IF held.mode = "selected" THEN {<<"skill", s>> : s \in held.skills} ELSE {})
        /\ Wanted(held) = A \union B \union C
  BY DEF Wanted
<1>6. /\ \A p \in A : p[1] = "model" /\ p[2] = held.model /\ held.model # "none"
      /\ \A p \in B : p[1] = "tool" /\ p[2] \in held.tools
      /\ \A p \in C : p[1] = "skill" /\ p[2] \in IF held.mode = "all" THEN {"*"} ELSE IF held.mode = "selected" THEN held.skills ELSE {}
  BY <1>5
<1>7. Keys(Wanted(held), "tool") = held.tools
  <2>1. \A t \in held.tools : <<"tool", t>> \in Wanted(held) /\ <<"tool", t>>[1] = "tool" /\ <<"tool", t>>[2] = t
    BY <1>5
  <2>2. held.tools \subseteq Keys(Wanted(held), "tool")
    BY <2>1 DEF Keys
  <2>3. \A p \in Wanted(held) : p[1] = "tool" => p[2] \in held.tools
    BY <1>5, <1>6
  <2>4. QED
    BY <2>2, <2>3 DEF Keys
<1>8. Keys(Wanted(held), "skill") = IF held.mode = "all" THEN {"*"} ELSE IF held.mode = "selected" THEN held.skills ELSE {}
  <2>1. PICK K : K = IF held.mode = "all" THEN {"*"} ELSE IF held.mode = "selected" THEN held.skills ELSE {}
    OBVIOUS
  <2>2. \A k \in K : <<"skill", k>> \in Wanted(held) /\ <<"skill", k>>[1] = "skill" /\ <<"skill", k>>[2] = k
    BY <1>5, <2>1
  <2>3. K \subseteq Keys(Wanted(held), "skill")
    BY <2>2 DEF Keys
  <2>4. \A p \in Wanted(held) : p[1] = "skill" => p[2] \in K
    BY <1>5, <1>6, <2>1
  <2>5. QED
    BY <2>1, <2>3, <2>4 DEF Keys
<1>9. Keys(Wanted(held), "model") = {held.model} \ {"none"}
  <2>1. held.model # "none" => <<"model", held.model>> \in Wanted(held) /\ <<"model", held.model>>[1] = "model" /\ <<"model", held.model>>[2] = held.model
    BY <1>5
  <2>2. held.model # "none" => held.model \in Keys(Wanted(held), "model")
    BY <2>1 DEF Keys
  <2>3. \A p \in Wanted(held) : p[1] = "model" => p[2] = held.model /\ held.model # "none"
    BY <1>5, <1>6
  <2>4. QED
    BY <2>2, <2>3 DEF Keys
<1>10. QED
  BY <1>4, <1>7, <1>8, <1>9, CanvasAssumption, FS_Subset

\* An agent has a primary node.
LEMMA PrimaryIs ==
  ASSUME subs \in [1 .. Occurrences -> Seq(Plugs)]
  PROVE  Primary \in 1 .. Occurrences
<1> DEFINE Before(o, p) == Len(subs[o]) > Len(subs[p]) \/ (Len(subs[o]) = Len(subs[p]) /\ o <= p)
           Right(n) == n <= Occurrences /\ n > 0 => \E o \in 1 .. n : \A p \in 1 .. n : Before(o, p)
           T == {n \in Nat : Right(n)}
<1>1. \A o \in 1 .. Occurrences : Len(subs[o]) \in Nat
  OBVIOUS
<1>2. Occurrences \in Nat /\ Occurrences > 0
  BY CanvasAssumption
<1>3. 0 \in T
  OBVIOUS
<1>4. ASSUME NEW n \in Nat, Right(n) PROVE Right(n + 1)
  <2> SUFFICES ASSUME n + 1 <= Occurrences PROVE \E o \in 1 .. n + 1 : \A p \in 1 .. n + 1 : Before(o, p)
    BY Zenon
  <2>1. CASE n = 0
    <3>1. 1 \in 1 .. Occurrences /\ Len(subs[1]) \in Nat
      BY <1>1, <1>2
    <3>2. Before(1, 1)
      BY <3>1
    <3>3. 1 .. n + 1 = {1}
      BY <2>1
    <3> HIDE DEF Before
    <3>4. QED
      BY <3>2, <3>3
  <2>2. CASE n > 0
    <3>1. n <= Occurrences
      BY <1>2
    <3>2. PICK o \in 1 .. n : \A p \in 1 .. n : Before(o, p)
      BY <1>4, <2>2, <3>1
    <3>3. PICK m \in 1 .. n + 1 : m = n + 1 /\ m \in 1 .. Occurrences /\ o \in 1 .. Occurrences /\ o \in 1 .. n + 1 /\ 1 .. n + 1 = (1 .. n) \union {m}
      BY <1>2
    <3>4. Before(m, m)
      BY <1>1, <3>3
    <3>5. CASE Before(o, m)
      <4> HIDE DEF Before
      <4>1. QED
        BY <3>2, <3>3, <3>5
    <3>6. CASE ~ Before(o, m)
      <4>1. \A p \in 1 .. n : Before(m, p)
        <5> SUFFICES ASSUME NEW p \in 1 .. n PROVE Before(m, p)
          OBVIOUS
        <5>1. p \in 1 .. Occurrences
          BY <1>2
        <5>2. Before(o, p)
          BY <3>2
        <5>3. QED
          BY <1>1, <3>3, <3>6, <5>1, <5>2
      <4> HIDE DEF Before
      <4>2. QED
        BY <3>3, <3>4, <4>1
    <3>7. QED
      BY <3>5, <3>6
  <2>3. QED
    BY <2>1, <2>2
<1>5. \E o \in 1 .. Occurrences : \A p \in 1 .. Occurrences : Before(o, p)
  <2>1. \A n \in Nat : n \in T => n + 1 \in T
    <3> HIDE DEF Right
    <3>1. QED
      BY <1>4
  <2>2. Nat \subseteq T
    <3> HIDE DEF T
    <3>1. QED
      BY <1>3, <2>1, SetInduction
  <2>3. Right(Occurrences)
    <3> HIDE DEF Right
    <3>1. QED
      BY <1>2, <2>2
  <2>4. Occurrences <= Occurrences
    BY <1>2
  <2> HIDE DEF Before
  <2>5. QED
    BY <1>2, <2>3, <2>4
<1>6. DOMAIN subs = 1 .. Occurrences
  OBVIOUS
<1>7. QED
  BY <1>5, <1>6 DEF Primary

LEMMA SyncedIs ==
  ASSUME subs \in [1 .. Occurrences -> Seq(Plugs)], NEW held \in AgentSettings
  PROVE  /\ Synced(held) \in [1 .. Occurrences -> Seq(Plugs)]
         /\ \E o \in 1 .. Occurrences :
              /\ ToSet(Synced(held)[o]) = Wanted(held)
              /\ \A p \in 1 .. Occurrences : p # o => Synced(held)[p] = <<>>
<1>1. PICK o \in 1 .. Occurrences : o = Primary
  BY PrimaryIs
<1>2. PICK W \in SUBSET Plugs : W = Wanted(held) /\ IsFiniteSet(W)
  BY WantedFits
<1>3. PICK s \in Seq(Plugs) : s = subs[o]
  OBVIOUS
<1>4. PICK a \in Seq(Plugs) : a = Only(s, W) /\ ToSet(a) = ToSet(s) \intersect W
  BY OnlySet
<1>5. IsFiniteSet(W \ ToSet(s))
  BY <1>2, FS_Subset
<1>6. PICK b \in Seq(Plugs) : b = SetToSeq(W \ ToSet(s)) /\ ToSet(b) = W \ ToSet(s)
  <2>1. PICK D : D = W \ ToSet(s)
    OBVIOUS
  <2>2. SetToSeq(D) \in Seq(D) /\ ToSet(SetToSeq(D)) = D
    BY <1>5, <2>1, SequenceOfSet
  <2>3. \A r \in Seq(D) : r \in Seq(Plugs)
    BY <2>1
  <2>4. QED
    BY <2>1, <2>2, <2>3
<1>7. PICK r \in Seq(Plugs) : r = a \o b /\ ToSet(r) = W
  <2>1. a \o b \in Seq(Plugs) /\ ToSet(a \o b) = ToSet(a) \union ToSet(b)
    BY JoinedSet
  <2>2. ToSet(a) \union ToSet(b) = W
    BY <1>4, <1>6
  <2>3. QED
    BY <2>1, <2>2
<1>8. Synced(held) = [p \in 1 .. Occurrences |-> IF p # o THEN <<>> ELSE r]
  <2>1. DOMAIN subs = 1 .. Occurrences
    OBVIOUS
  <2>2. QED
    BY <1>1, <1>2, <1>3, <1>4, <1>6, <1>7, <2>1 DEF Synced
<1>9. <<>> \in Seq(Plugs)
  OBVIOUS
<1>10. QED
  BY <1>2, <1>7, <1>8, <1>9

\* What is merged of what one node holds is the row it holds.
LEMMA MergedIs ==
  ASSUME CanvasTypeOK
  PROVE  /\ Body(Merged) \in AgentSettings
         /\ (OpenInv /\ freshId => InEffect(Body(Merged)) = InEffect(settings))
<1>1. PICK held \in AgentSettings : held = settings
  BY DEF CanvasTypeOK, AgentSettings
<1>2. subs \in [1 .. Occurrences -> Seq(Plugs)] /\ DOMAIN subs = 1 .. Occurrences
  BY DEF CanvasTypeOK
<1>3. \A o \in 1 .. Occurrences : DOMAIN subs[o] \subseteq Nat /\ \A k \in DOMAIN subs[o] : subs[o][k] \in Plugs /\ subs[o][k] \in ToSet(subs[o])
  BY <1>2 DEF ToSet
<1>4. \A T : T \subseteq Nat /\ T # {} => Min(T) \in T
  <2> SUFFICES ASSUME NEW T, T \subseteq Nat, T # {} PROVE Min(T) \in T
    OBVIOUS
  <2>1. \E x \in T : \A y \in T : x <= y
    BY LeastOf
  <2>2. QED
    BY <2>1 DEF Min
<1>5. All \subseteq Plugs
  BY <1>2, <1>3 DEF All, ToSet
<1> DEFINE having == {o \in 1 .. Occurrences : ModelsOf(o) # {}}
<1>6. FirstModel = IF having = {} THEN "none" ELSE subs[Min(having)][Min(ModelsOf(Min(having)))][2]
  BY <1>2 DEF FirstModel
<1>7. having # {} => \E o \in 1 .. Occurrences : \E k \in ModelsOf(o) : FirstModel = subs[o][k][2]
  <2> SUFFICES ASSUME having # {} PROVE \E o \in 1 .. Occurrences : \E k \in ModelsOf(o) : FirstModel = subs[o][k][2]
    OBVIOUS
  <2>1. PICK o : o = Min(having)
    OBVIOUS
  <2>2. o \in 1 .. Occurrences /\ ModelsOf(o) # {}
    <3>1. having \subseteq Nat
      OBVIOUS
    <3>2. o \in having
      <4> HIDE DEF having
      <4>1. QED
        BY <1>4, <2>1, <3>1
    <3>3. QED
      BY <3>2
  <2>3. ModelsOf(o) \subseteq Nat
    BY <1>3, <2>2 DEF ModelsOf
  <2>4. Min(ModelsOf(o)) \in ModelsOf(o)
    BY <1>4, <2>2, <2>3
  <2> HIDE DEF having
  <2>5. FirstModel = subs[o][Min(ModelsOf(o))][2]
    BY <1>6, <2>1
  <2>6. QED
    BY <2>2, <2>4, <2>5
<1>8. FirstModel \in {"none"} \union Keys(All, "model") /\ (FirstModel = "none" \/ FirstModel \in Keys(All, "model"))
      /\ (Keys(All, "model") # {} => FirstModel \in Keys(All, "model"))
  <2>1. ASSUME NEW o \in 1 .. Occurrences, NEW k \in ModelsOf(o) PROVE subs[o][k][2] \in Keys(All, "model")
    <3>1. k \in DOMAIN subs[o] /\ subs[o][k][1] = "model"
      BY DEF ModelsOf
    <3>2. subs[o][k] \in All
      BY <1>2, <1>3, <3>1 DEF All
    <3>3. QED
      BY <3>1, <3>2 DEF Keys
  <2>2. Keys(All, "model") # {} => having # {}
    <3> SUFFICES ASSUME Keys(All, "model") # {} PROVE having # {}
      OBVIOUS
    <3>1. PICK p \in All : p[1] = "model"
      BY DEF Keys
    <3>2. PICK o \in 1 .. Occurrences : p \in ToSet(subs[o])
      BY <1>2 DEF All
    <3>3. PICK k \in DOMAIN subs[o] : p = subs[o][k]
      BY <3>2 DEF ToSet
    <3>4. QED
      BY <3>1, <3>3 DEF ModelsOf
  <2>3. having = {} => FirstModel = "none"
    BY <1>6
  <2>4. QED
    BY <1>7, <2>1, <2>2, <2>3
<1>9. \A type : Keys(All, type) \subseteq Keys(Plugs, type)
  BY <1>5 DEF Keys
<1>10. Body(Merged) \in AgentSettings
  BY <1>8, <1>9 DEF Body, Merged, AgentSettings
<1>11. ASSUME OpenInv, freshId PROVE InEffect(Body(Merged)) = InEffect(settings)
  <2>1. PICK o \in 1 .. Occurrences : /\ ToSet(subs[o]) = Wanted(held)
                                      /\ \A p \in 1 .. Occurrences : p # o => subs[p] = <<>>
    BY <1>1, <1>11 DEF OpenInv
  <2>2. \A p \in 1 .. Occurrences : p # o => ToSet(subs[p]) = {}
    BY <2>1 DEF ToSet
  <2>3. All = Wanted(held)
    BY <1>2, <2>1, <2>2 DEF All
  <2>4. /\ Keys(All, "tool") = held.tools
        /\ Keys(All, "skill") = IF held.mode = "all" THEN {"*"} ELSE IF held.mode = "selected" THEN held.skills ELSE {}
        /\ Keys(All, "model") = {held.model} \ {"none"}
    BY <2>3, WantedFits
  <2>5. FirstModel = held.model
    <3>1. CASE held.model = "none"
      BY <1>8, <2>4, <3>1
    <3>2. CASE held.model # "none"
      BY <1>8, <2>4, <3>2
    <3>3. QED
      BY <3>1, <3>2
  <2>6. held.mode \in {"none", "selected", "all"} /\ "*" \notin held.skills
    BY DEF AgentSettings
  <2>7. PICK skills : skills = Keys(All, "skill")
    OBVIOUS
  <2>8. /\ Merged.model = held.model /\ Merged.tools = held.tools /\ Merged.skills = skills
        /\ skills = IF held.mode = "all" THEN {"*"} ELSE IF held.mode = "selected" THEN held.skills ELSE {}
    BY <2>4, <2>5, <2>7 DEF Merged
  <2>9. PICK body : /\ body = Body(Merged) /\ body.model = held.model /\ body.tools = held.tools
                    /\ body.mode = (IF "*" \in skills THEN "all" ELSE IF skills # {} THEN "selected" ELSE "none")
                    /\ body.skills = skills \ {"*"}
    <3>1. PICK m : m = Merged
      OBVIOUS
    <3>2. m.model = held.model /\ m.tools = held.tools /\ m.skills = skills
      BY <2>8, <3>1
    <3>3. PICK body : body = Body(m)
      OBVIOUS
    <3>4. /\ body.model = m.model /\ body.tools = m.tools /\ body.skills = m.skills \ {"*"}
          /\ body.mode = (IF "*" \in m.skills THEN "all" ELSE IF m.skills # {} THEN "selected" ELSE "none")
      BY <3>3 DEF Body
    <3>5. body = Body(Merged)
      BY <3>1, <3>3
    <3>6. QED
      BY <3>2, <3>4, <3>5
  <2>10. (IF body.mode = "all" THEN {"*"} ELSE IF body.mode = "selected" THEN body.skills ELSE {})
           = (IF held.mode = "all" THEN {"*"} ELSE IF held.mode = "selected" THEN held.skills ELSE {})
    <3>1. CASE held.mode = "all"
      BY <2>8, <2>9, <3>1
    <3>2. CASE held.mode = "selected"
      BY <2>6, <2>8, <2>9, <3>2
    <3>3. CASE held.mode = "none"
      BY <2>8, <2>9, <3>3
    <3>4. QED
      BY <2>6, <3>1, <3>2, <3>3
  <2>11. InEffect(body) = InEffect(held)
    BY <2>9, <2>10 DEF InEffect
  <2>12. QED
    BY <1>1, <2>9, <2>11
<1>12. QED
  BY <1>10, <1>11

LEMMA CanvasStarts == CanvasInit => CanvasInv
<1> SUFFICES ASSUME CanvasInit PROVE CanvasInv
  OBVIOUS
<1>1. \A o \in 1 .. Occurrences : subs[o] = <<>>
  BY DEF CanvasInit
<1>2. subs \in [1 .. Occurrences -> Seq(Plugs)]
  <2>1. <<>> \in Seq(Plugs)
    OBVIOUS
  <2>2. QED
    BY <2>1 DEF CanvasInit
<1>3. drawn = {} /\ IsFiniteSet(drawn)
  BY FS_EmptySet DEF CanvasInit
<1>4. CanvasTypeOK
  BY <1>2, <1>3 DEF CanvasInit, CanvasTypeOK, NoSettings
<1>5. OpenInv
  <2>1. 1 \in 1 .. Occurrences
    BY CanvasAssumption
  <2>2. Wanted(settings) = {}
    BY DEF CanvasInit, NoSettings, Wanted
  <2>3. ToSet(subs[1]) = {}
    BY <1>1, <2>1 DEF ToSet
  <2>4. QED
    BY <1>1, <2>1, <2>2, <2>3 DEF OpenInv
<1>6. QED
  BY <1>4, <1>5 DEF CanvasInv

LEMMA DrawKeeps ==
  ASSUME CanvasInv, Draw
  PROVE  CanvasInv'
<1>1. \E n \in CanvasNodes, m \in CanvasNodes : \E b \in Branches(n) :
        drawn' = drawn \union {[from |-> n, branch |-> b, to |-> m]}
  BY DEF Draw
<1>2. \A n : Branches(n) \subseteq {"", "true", "false", "approved", "rejected"}
  BY DEF Branches
<1>3. PICK e : /\ drawn' = drawn \union {e}
               /\ e \in [from : CanvasNodes, branch : {"", "true", "false", "approved", "rejected"}, to : CanvasNodes]
  <2> DEFINE Connection == [from : CanvasNodes, branch : {"", "true", "false", "approved", "rejected"}, to : CanvasNodes]
  <2>1. ASSUME NEW n \in CanvasNodes, NEW m \in CanvasNodes, NEW b \in Branches(n)
        PROVE  [from |-> n, branch |-> b, to |-> m] \in Connection
    <3>1. b \in {"", "true", "false", "approved", "rejected"}
      BY <1>2
    <3>2. QED
      BY <3>1
  <2> HIDE DEF Connection
  <2>2. \E e : drawn' = drawn \union {e} /\ e \in Connection
    BY <1>1, <2>1, Zenon
  <2>3. QED
    BY <2>2 DEF Connection
<1>4. IsFiniteSet(drawn')
  BY <1>3, FS_AddElement DEF CanvasInv, CanvasTypeOK
<1>5. CanvasTypeOK'
  BY <1>3, <1>4 DEF CanvasInv, CanvasTypeOK, Draw
<1>6. settings' = settings /\ subs' = subs /\ freshId' = freshId
  BY DEF Draw
<1>7. OpenInv'
  BY <1>6 DEF CanvasInv, OpenInv, Wanted
<1>8. QED
  BY <1>5, <1>7 DEF CanvasInv

LEMMA PlugKeeps ==
  ASSUME CanvasInv, Plug
  PROVE  CanvasInv'
<1>1. subs \in [1 .. Occurrences -> Seq(Plugs)] /\ DOMAIN subs = 1 .. Occurrences
  BY DEF CanvasInv, CanvasTypeOK
<1>2. PICK o \in 1 .. Occurrences, p \in Plugs :
        subs' = [subs EXCEPT ![o] = Append(@, p)] \/ subs' = [subs EXCEPT ![o] = Only(@, Plugs \ {p})]
  BY <1>1 DEF Plug
<1>3. Append(subs[o], p) \in Seq(Plugs) /\ Only(subs[o], Plugs \ {p}) \in Seq(Plugs)
  BY <1>1, AppendedSet, OnlySet
<1>4. subs' \in [1 .. Occurrences -> Seq(Plugs)]
  BY <1>1, <1>2, <1>3
<1>5. CanvasTypeOK'
  <2>1. plugged' \in Nat
    <3>1. plugged \in Nat /\ plugged' = plugged + 1
      BY DEF CanvasInv, CanvasTypeOK, Plug
    <3>2. QED
      BY <3>1
  <2>2. UNCHANGED <<page, drawn, deliver, settings>> /\ freshId' = FALSE
    BY DEF Plug
  <2>3. QED
    BY <1>4, <2>1, <2>2 DEF CanvasInv, CanvasTypeOK
<1>6. OpenInv'
  BY DEF Plug, OpenInv
<1>7. QED
  BY <1>5, <1>6 DEF CanvasInv

\* Opening a project on a row leaves one node that holds it.
LEMMA OpeningKeeps ==
  ASSUME CanvasInv, NEW held \in AgentSettings, settings' = held, subs' = Synced(held),
         UNCHANGED <<page, drawn, deliver>>, freshId' = TRUE, plugged' \in Nat
  PROVE  CanvasInv'
<1>1. subs \in [1 .. Occurrences -> Seq(Plugs)]
  BY DEF CanvasInv, CanvasTypeOK
<1>2. PICK new : new = Synced(held)
  OBVIOUS
<1>3. /\ new \in [1 .. Occurrences -> Seq(Plugs)]
      /\ \E o \in 1 .. Occurrences : ToSet(new[o]) = Wanted(held) /\ \A p \in 1 .. Occurrences : p # o => new[p] = <<>>
  BY <1>1, <1>2, SyncedIs
<1>4. subs' = new
  BY <1>2
<1>5. CanvasTypeOK'
  BY <1>3, <1>4 DEF CanvasInv, CanvasTypeOK, AgentSettings
<1>6. OpenInv'
  BY <1>3, <1>4 DEF OpenInv
<1>7. QED
  BY <1>5, <1>6 DEF CanvasInv

LEMMA SaveCanvasKeeps ==
  ASSUME CanvasInv, SaveCanvas
  PROVE  CanvasInv'
<1>1. PICK held \in AgentSettings : held = Body(Merged)
  BY MergedIs DEF CanvasInv
<1>2. plugged' = plugged /\ plugged \in Nat
  BY DEF SaveCanvas, CanvasInv, CanvasTypeOK
<1>3. settings' = held /\ subs' = Synced(held) /\ freshId' = TRUE /\ UNCHANGED <<page, drawn, deliver>>
  BY <1>1 DEF SaveCanvas
<1>4. QED
  BY <1>2, <1>3, OpeningKeeps

LEMMA EditElsewhereKeeps ==
  ASSUME CanvasInv, EditElsewhere
  PROVE  CanvasInv'
<1>1. PICK old \in AgentSettings : old = settings
  BY DEF CanvasInv, CanvasTypeOK, AgentSettings
<1>2. PICK tools \in SUBSET Keys(Plugs, "tool"), mode \in {"all", "selected", "none"} :
        settings' = [settings EXCEPT !.tools = tools, !.mode = mode]
  BY DEF EditElsewhere
<1>3. PICK held \in AgentSettings : held = [old EXCEPT !.tools = tools, !.mode = mode]
  BY DEF AgentSettings
<1>4. plugged' \in Nat
  <2>1. plugged \in Nat /\ plugged' = plugged + 1
    BY DEF EditElsewhere, CanvasInv, CanvasTypeOK
  <2>2. QED
    BY <2>1
<1>5. settings' = held
  BY <1>1, <1>2, <1>3
<1>6. subs' = Synced(held) /\ freshId' = TRUE /\ UNCHANGED <<page, drawn, deliver>>
  BY <1>5 DEF EditElsewhere, Synced, Primary
<1>7. QED
  BY <1>4, <1>5, <1>6, OpeningKeeps

LEMMA CanvasKeeps ==
  ASSUME CanvasInv, [CanvasNext]_canvasVars
  PROVE  CanvasInv'
<1>1. CASE CanvasNext
  BY <1>1, DrawKeeps, PlugKeeps, SaveCanvasKeeps, EditElsewhereKeeps DEF CanvasNext
<1>2. CASE UNCHANGED canvasVars
  BY <1>2 DEF canvasVars, CanvasInv, CanvasTypeOK, OpenInv, Wanted
<1>3. QED
  BY <1>1, <1>2

\* A save of a project opened and not edited leaves the agent as it was: a
\* step that moves `plugged' is an edit, here or elsewhere.
LEMMA SavedAsOpened ==
  ASSUME CanvasInv, CanvasNext, freshId, settings' # settings, plugged' = plugged
  PROVE  InEffect(settings') = InEffect(settings)
<1>1. CASE Draw
  BY <1>1 DEF Draw
<1>2. CASE Plug
  BY <1>2 DEF Plug
<1>3. CASE SaveCanvas
  <2>1. PICK held : held = Body(Merged)
    OBVIOUS
  <2>2. settings' = held
    BY <1>3, <2>1 DEF SaveCanvas
  <2>3. InEffect(held) = InEffect(settings)
    BY <2>1, MergedIs DEF CanvasInv
  <2>4. QED
    BY <2>2, <2>3
<1>4. CASE EditElsewhere
  <2>1. plugged' = plugged + 1 /\ plugged \in Nat
    BY <1>4 DEF EditElsewhere, CanvasInv, CanvasTypeOK
  <2>2. QED
    BY <2>1
<1>5. QED
  BY <1>1, <1>2, <1>3, <1>4 DEF CanvasNext

LEMMA CanvasStays == CanvasSpec => []CanvasInv
<1>1. CanvasInit => CanvasInv
  BY CanvasStarts
<1>2. CanvasInv /\ [CanvasNext]_canvasVars => CanvasInv'
  BY CanvasKeeps
<1>3. QED
  BY <1>1, <1>2, PTL DEF CanvasSpec

\* A canvas that compileFlow() and validateFlow() let through is run as it was
\* drawn: no connection is lost, none is made up, no outcome leads to two
\* places, and every run comes to an End.
THEOREM CanvasRunsWhatIsDrawn == CanvasSpec => []RunsWhatIsDrawn
<1>1. CanvasInv => RunsWhatIsDrawn
  BY AcceptedRunsWhatIsDrawn DEF CanvasInv
<1>2. QED
  BY <1>1, CanvasStays, PTL

\* Opening a project and saving it unedited never changes what an agent may
\* use: syncFromAgents() and mergeAttachments() undo each other.
THEOREM CanvasOpenedIsSaved == CanvasSpec => OpenedIsSaved
<1>1. CanvasInv /\ [CanvasNext]_canvasVars
        => [freshId /\ settings' # settings /\ plugged' = plugged => InEffect(settings') = InEffect(settings)]_canvasVars
  BY SavedAsOpened DEF canvasVars
<1>2. QED
  BY <1>1, CanvasStays, PTL DEF CanvasSpec, OpenedIsSaved
================================================================================
