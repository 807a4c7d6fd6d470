---------------------------- MODULE MCWorkflows -----------------------------
(***************************************************************************)
(* Workflow runs, the schedules of agents and the studio's canvas for TLC, *)
(* each on its own, in one run: a behaviour is of one component, its       *)
(* scene, and the others stay where they begin.                            *)
(***************************************************************************)
EXTENDS MCFlowRuns, AgentSchedules, StudioCanvas

\* A trigger, two agents, an approval and an end; an agent has two models.
MCKindOf == [n \in CanvasNodes |->
  CASE n = "t" -> "trigger" [] n \in {"a", "b"} -> "agent" [] n = "p" -> "approval" [] OTHER -> "end"]
MCPlugs == {<<"model", "m1">>, <<"model", "m2">>, <<"tool", "t">>, <<"skill", "s">>, <<"skill", "*">>}

-----------------------------------------------------------------------------
CONSTANT Scenes  \* the components the run is about

VARIABLE scene   \* the one this behaviour is of

sceneVars == <<scene, vars, scheduleVars, canvasVars>>

\* The other components stay where they begin.
ScenesInit ==
  /\ scene \in Scenes
  /\ Init /\ SchedulesInit /\ CanvasInit
  /\ (scene # "flows" => flow = "review")
  /\ (scene # "schedules" => next = [s \in Schedules |-> 1])
  /\ (scene # "canvas" => page = "draw" /\ ~deliver)

ScenesNext ==
  \/ /\ scene = "flows" /\ Next
     /\ UNCHANGED <<scene, scheduleVars, canvasVars>>
  \/ /\ scene = "schedules" /\ SchedulesNext
     /\ UNCHANGED <<scene, vars, canvasVars>>
  \/ /\ scene = "canvas" /\ CanvasNext
     /\ UNCHANGED <<scene, vars, scheduleVars>>

ScenesSpec == ScenesInit /\ [][ScenesNext]_sceneVars

FairScenesSpec ==
  /\ ScenesSpec
  /\ Fairness
  /\ SchedulesFairness
=============================================================================
