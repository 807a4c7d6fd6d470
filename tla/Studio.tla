--------------------------------- MODULE Studio ---------------------------------
(***************************************************************************)
(* Projects of Agent Studio (src/core/studio/studio_service.ts) and the    *)
(* import of a file of agents and projects (src/core/portable/             *)
(* portable_service.ts).  A save writes the agents, then the workflow they *)
(* run in, then the project; an import creates skills, agents and projects *)
(* through the same calls and undoes what it created when one fails.       *)
(* Requests run side by side, each write is a step.                        *)
(***************************************************************************)
EXTENDS Naturals, FiniteSets, Sequences, TLC

CONSTANTS
  AgentRows, StudioFlows, Projects,   \* rows of agents, pipelines, studio_projects
  Jobs, Tickers,                \* requests; servers whose scheduler ticks
  Files,                        \* import files: [skill, agent, projects]
  MaxSaves, MaxSlots,           \* bounds of the model: requests made, schedule slots,
  MaxStudioFaults               \* writes that fail

StudioTriggers == {"manual", "schedule", "chat", "webhook"}
FileTypes == [skill : BOOLEAN, agent : BOOLEAN,
              projects : Seq([valid : BOOLEAN, new : 0..1, trigger : StudioTriggers])]

ASSUME StudioAssumption ==
  /\ MaxSaves \in Nat /\ MaxSlots \in Nat /\ MaxStudioFaults \in Nat
  /\ Files \subseteq FileTypes
  /\ "none" \notin Projects \union StudioFlows

VARIABLES
  agentRows,     \* agents there are
  flowOf,        \* pipelines: "none", or the canvas they run [agents, rev]
  project,       \* studio_projects: NoProject or [agents, rev, flow, trigger, hook, due]
  skills,        \* skills made by imports
  issued,        \* ids given to rows so far: none is given twice
  job,           \* requests under way
  tick,          \* a scheduler's due row: NoDue or [project, due, flow]
  clock,
  began,         \* requests made
  claims,        \* history: <<project, slot>> claimed, with how often
  faulted,       \* history: the kinds of write that failed
  overlapped,    \* history: requests were under way at the same time
  strays,        \* history: agents a save made and left off every canvas
  leftovers      \* history: what a failed import left

studioVars == <<agentRows, flowOf, project, skills, issued, job, tick, clock, began, claims, faulted, overlapped, strays, leftovers>>
rows == <<agentRows, flowOf, project, skills, issued>>
past == <<claims, strays, leftovers>>

NoStudioFlow == [agents |-> {}, rev |-> 0]
NoProject == [agents |-> {}, rev |-> 0, flow |-> "none", trigger |-> "none", hook |-> FALSE, due |-> 0]
NoDue == [project |-> "none", due |-> 0, flow |-> "none"]
NoFile == [skill |-> FALSE, agent |-> FALSE, projects |-> <<>>]

\* A request's own variables; a kind of request uses some of them.
NoJob ==
  [op |-> "none", at |-> "done", p |-> "none", agents |-> {}, todo |-> {}, new |-> 0, made |-> {}, old |-> FALSE,
   flow |-> "none", rev |-> 0, trigger |-> "none", failed |-> FALSE,
   file |-> NoFile, left |-> <<>>, agent |-> {}, skill |-> {}, projects |-> {}, own |-> {}]

StudioInit ==
  /\ agentRows = {} /\ flowOf = [f \in StudioFlows |-> NoStudioFlow] /\ project = [p \in Projects |-> NoProject] /\ skills = {} /\ issued = {}
  /\ job = [j \in Jobs |-> NoJob] /\ tick = [s \in Tickers |-> NoDue] /\ clock = 0 /\ began = 0
  /\ claims = [p \in Projects |-> [n \in 1..MaxSlots + 1 |-> 0]] /\ faulted = {} /\ overlapped = FALSE
  /\ strays = {} /\ leftovers = {}

Saved(p) == project[p] # NoProject
At(j, place) == job[j].at = place
Becomes(j, request) == job' = [job EXCEPT ![j] = request]
Fault(kind) == Cardinality(faulted) < MaxStudioFaults /\ faulted' = faulted \union {kind}
Fine == UNCHANGED faulted
Quiet == UNCHANGED <<tick, clock, began, overlapped>>

Begun(j) ==
  /\ job[j] = NoJob /\ began < MaxSaves /\ began' = began + 1
  /\ overlapped' = (overlapped \/ \E k \in Jobs : job[k] # NoJob)

\* How a save ends: the request is over, or the import goes on or is undone.
\* What it made is lost when no project has it.
Ends(j, ok, made) ==
  Becomes(j, IF job[j].op = "save" THEN NoJob
             ELSE IF ok THEN [job[j] EXCEPT !.at = "next", !.projects = job[j].projects \union {job[j].p}]
             ELSE [job[j] EXCEPT !.at = "undo", !.own = job[j].own \union made])

\* commandOwner(): another project starts with the command.
Taken(p) == \E q \in Projects \ {p} : project[q].trigger = "chat"

-----------------------------------------------------------------------------
\* save(): everything is checked before anything is written.  An agent that was
\* deleted meanwhile is made again.
Canvas(j, p, keep, new, trigger) ==
  [job[j] EXCEPT
     !.at = "agents", !.p = p, !.agents = keep \intersect agentRows, !.todo = keep \intersect agentRows,
     !.new = IF keep \subseteq agentRows THEN new ELSE 1, !.made = {}, !.old = Saved(p), !.flow = project[p].flow,
     !.rev = began, !.trigger = trigger, !.failed = FALSE]

BeginSave(j) ==
  /\ Begun(j)
  /\ \E p \in Projects, keep \in SUBSET AgentRows, new \in 0..1, trigger \in StudioTriggers :
       /\ Saved(p) \/ p \notin issued
       /\ keep # {} \/ new = 1
       /\ keep \subseteq agentRows \union project[p].agents
       /\ ~(trigger = "chat" /\ Taken(p))
       /\ Becomes(j, [Canvas(j, p, keep, new, trigger) EXCEPT !.op = "save", !.rev = began + 1])
       /\ issued' = issued \union {p}
  /\ UNCHANGED <<agentRows, flowOf, project, skills, tick, clock, past, faulted>>

SaveStops(j, kind) ==
  /\ IF kind = "none" THEN Fine ELSE Fault(kind)
  /\ strays' = strays \union (IF job[j].op = "save" THEN job[j].made ELSE {})
  /\ Ends(j, FALSE, job[j].made) /\ UNCHANGED <<rows, claims, leftovers>> /\ Quiet

UpdateAgent(j) ==
  /\ At(j, "agents") /\ job[j].todo # {}
  /\ \E a \in job[j].todo :
       IF a \in agentRows THEN Becomes(j, [job[j] EXCEPT !.todo = job[j].todo \ {a}]) /\ Fine /\ UNCHANGED <<rows, past>> /\ Quiet
       ELSE SaveStops(j, "none")

CreateAgent(j) ==
  /\ At(j, "agents") /\ job[j].todo = {} /\ job[j].new = 1
  /\ \E a \in AgentRows \ issued :
       /\ agentRows' = agentRows \union {a} /\ issued' = issued \union {a}
       /\ Becomes(j, [job[j] EXCEPT !.new = 0, !.agents = job[j].agents \union {a}, !.made = job[j].made \union {a}])
  /\ UNCHANGED <<flowOf, project, skills, past, faulted>> /\ Quiet

AgentsFail(j) == At(j, "agents") /\ (job[j].todo # {} \/ job[j].new = 1) /\ SaveStops(j, "agent")

AgentsWritten(j) == At(j, "agents") /\ job[j].todo = {} /\ job[j].new = 0

\* Faulty variant, for mutation checks: a workflow that can't be written ends the save.
WriteFlowOrStop(j) ==
  /\ AgentsWritten(j)
  /\ \/ \E f \in StudioFlows \ issued :
          /\ Becomes(j, [job[j] EXCEPT !.at = "project", !.flow = f]) /\ issued' = issued \union {f}
          /\ flowOf' = [flowOf EXCEPT ![f] = [agents |-> job[j].agents, rev |-> job[j].rev]]
          /\ Fine /\ UNCHANGED <<agentRows, project, skills, past>> /\ Quiet
     \/ SaveStops(j, "flow")

\* The workflow: the project's own when it is there, a new one otherwise; its
\* agents have to exist.  When it can't be written the project is saved all
\* the same, with the agents that were made.
WriteFlow(j) ==
  /\ AgentsWritten(j)
  /\ LET own == job[j].flow # "none" /\ flowOf[job[j].flow] # NoStudioFlow IN
     \/ /\ job[j].agents \subseteq agentRows
        /\ \E f \in IF own THEN {job[j].flow} ELSE StudioFlows \ issued :
             /\ flowOf' = [flowOf EXCEPT ![f] = [agents |-> job[j].agents, rev |-> job[j].rev]]
             /\ issued' = issued \union {f} /\ Becomes(j, [job[j] EXCEPT !.at = "project", !.flow = f])
        /\ Fine
     \/ /\ IF job[j].agents \subseteq agentRows THEN Fault("flow") ELSE Fine
        /\ Becomes(j, [job[j] EXCEPT !.at = "project", !.failed = TRUE]) /\ UNCHANGED <<flowOf, issued>>
  /\ UNCHANGED <<agentRows, project, skills, past>> /\ Quiet

\* The project's row: it has to be there still, its command free, its workflow there.
Writable(j) ==
  LET p == job[j].p IN
  /\ job[j].old = Saved(p)
  /\ ~(job[j].trigger = "chat" /\ Taken(p))
  /\ job[j].flow # "none" => flowOf[job[j].flow] # NoStudioFlow
WriteProject(j) ==
  LET p == job[j].p IN
  /\ At(j, "project") /\ Writable(j) /\ Fine
  /\ project' = [project EXCEPT ![p] =
       [agents |-> job[j].agents, rev |-> job[j].rev, flow |-> job[j].flow, trigger |-> job[j].trigger, hook |-> @.hook,
        due |-> IF job[j].trigger = "schedule" THEN clock + 1 ELSE 0]]
  /\ IF job[j].trigger = "webhook" /\ ~project[p].hook THEN Becomes(j, [job[j] EXCEPT !.at = "hook"]) ELSE Ends(j, ~job[j].failed, {})
  /\ UNCHANGED <<agentRows, flowOf, skills, issued, past>> /\ Quiet
ProjectFails(j) == At(j, "project") /\ IF Writable(j) THEN SaveStops(j, "project") ELSE SaveStops(j, "none")

\* issueWebhook(): the project gets its URL.
IssueWebhook(j) ==
  /\ At(j, "hook")
  /\ project' = [project EXCEPT ![job[j].p] = IF Saved(job[j].p) THEN [@ EXCEPT !.hook = TRUE] ELSE @]
  /\ Ends(j, ~job[j].failed, {}) /\ UNCHANGED <<agentRows, flowOf, skills, issued, past, faulted>> /\ Quiet

-----------------------------------------------------------------------------
\* remove(): the project, then its workflow; the agents stay.
DropFlow(f) == flowOf' = [g \in StudioFlows |-> IF g = f THEN NoStudioFlow ELSE flowOf[g]]
Unlinked(f, projects) == [p \in Projects |-> IF projects[p].flow = f THEN [projects[p] EXCEPT !.flow = "none"] ELSE projects[p]]

RemoveProject(j) ==
  /\ Begun(j)
  /\ \E p \in Projects :
       /\ Saved(p) /\ project' = [project EXCEPT ![p] = NoProject]
       /\ Becomes(j, IF project[p].flow = "none" THEN NoJob
                     ELSE [NoJob EXCEPT !.op = "remove", !.at = "flow", !.flow = project[p].flow])
  /\ UNCHANGED <<agentRows, flowOf, skills, issued, tick, clock, past, faulted>>
RemoveFlow(j) ==
  /\ At(j, "flow") /\ Becomes(j, NoJob)
  /\ \/ DropFlow(job[j].flow) /\ project' = Unlinked(job[j].flow, project) /\ Fine
     \/ Fault("remove") /\ UNCHANGED <<flowOf, project>>
  /\ UNCHANGED <<agentRows, skills, issued, past>> /\ Quiet

\* An agent is deleted on the Agents page.
DeleteAgent ==
  /\ began < MaxSaves /\ began' = began + 1
  /\ \E a \in agentRows : agentRows' = agentRows \ {a}
  /\ overlapped' = (overlapped \/ \E k \in Jobs : job[k] # NoJob)
  /\ UNCHANGED <<flowOf, project, skills, issued, job, tick, clock, past, faulted>>

-----------------------------------------------------------------------------
\* import(): skills, then agents with their functions, then projects.
BeginImport(j) ==
  /\ Begun(j)
  /\ \E file \in Files :
       Becomes(j, [NoJob EXCEPT !.op = "import", !.at = "skill", !.file = file, !.left = file.projects])
  /\ UNCHANGED <<rows, tick, clock, past, faulted>>

ImportSkill(j) ==
  /\ At(j, "skill")
  /\ IF ~job[j].file.skill THEN Becomes(j, [job[j] EXCEPT !.at = "agent"]) /\ Fine /\ UNCHANGED skills
     ELSE \/ skills' = skills \union {j} /\ Becomes(j, [job[j] EXCEPT !.at = "agent", !.skill = {j}]) /\ Fine
          \/ Fault("import") /\ Becomes(j, [job[j] EXCEPT !.at = "undo"]) /\ UNCHANGED skills
  /\ UNCHANGED <<agentRows, flowOf, project, issued, past>> /\ Quiet

ImportAgent(j) ==
  /\ At(j, "agent")
  /\ IF ~job[j].file.agent THEN Becomes(j, [job[j] EXCEPT !.at = "next"]) /\ Fine /\ UNCHANGED <<agentRows, issued>>
     ELSE \/ \E a \in AgentRows \ issued :
               /\ agentRows' = agentRows \union {a} /\ issued' = issued \union {a}
               /\ Becomes(j, [job[j] EXCEPT !.at = "functions", !.agent = {a}]) /\ Fine
          \/ Fault("import") /\ Becomes(j, [job[j] EXCEPT !.at = "undo"]) /\ UNCHANGED <<agentRows, issued>>
  /\ UNCHANGED <<flowOf, project, skills, past>> /\ Quiet

\* createFunction(), addMcpServer(), and update() with the helpers.
ImportFunctions(j) ==
  /\ At(j, "functions")
  /\ IF job[j].agent \subseteq agentRows
     THEN \/ Becomes(j, [job[j] EXCEPT !.at = "next"]) /\ Fine
          \/ Fault("import") /\ Becomes(j, [job[j] EXCEPT !.at = "undo"])
     ELSE Becomes(j, [job[j] EXCEPT !.at = "undo"]) /\ Fine
  /\ UNCHANGED <<rows, past>> /\ Quiet

\* The next project is saved as the Studio saves it: a schedule starts switched
\* off and a command in use is dropped.  A project that is not valid saves nothing.
ImportProject(j) ==
  /\ At(j, "next") /\ job[j].left # <<>>
  /\ LET proj == Head(job[j].left)
         inUse == \E q \in Projects : project[q].trigger = "chat"
         trigger == IF proj.trigger = "schedule" \/ (proj.trigger = "chat" /\ inUse) THEN "manual" ELSE proj.trigger
         new == IF job[j].agent = {} THEN 1 ELSE proj.new
     IN IF ~proj.valid THEN Becomes(j, [job[j] EXCEPT !.at = "undo", !.left = <<>>]) /\ UNCHANGED issued
        ELSE \E p \in Projects \ issued :
               /\ Becomes(j, [Canvas(j, p, job[j].agent, new, trigger) EXCEPT !.left = Tail(job[j].left)])
               /\ issued' = issued \union {p}
  /\ UNCHANGED <<agentRows, flowOf, project, skills, past, faulted>> /\ Quiet
Imported(j) ==
  /\ At(j, "next") /\ job[j].left = <<>> /\ Becomes(j, NoJob)
  /\ UNCHANGED <<rows, past, faulted>> /\ Quiet

\* What was created is removed again: the projects that were saved, the agents,
\* the skills.  A project's own new agents stay, as remove() leaves them.
Undo(j) ==
  LET drawn == UNION {project[p].agents : p \in job[j].projects} \ job[j].agent IN
  /\ At(j, "undo") /\ Becomes(j, NoJob)
  /\ project' = [p \in Projects |-> IF p \in job[j].projects THEN NoProject ELSE project[p]]
  /\ flowOf' = [f \in StudioFlows |-> IF \E p \in job[j].projects : project[p].flow = f THEN NoStudioFlow ELSE flowOf[f]]
  /\ agentRows' = agentRows \ job[j].agent /\ skills' = skills \ job[j].skill
  /\ leftovers' = leftovers \union ((job[j].own \union drawn) \intersect agentRows)
  /\ UNCHANGED <<issued, claims, strays, faulted>> /\ Quiet

-----------------------------------------------------------------------------
\* The schedulers.
Time ==
  /\ clock < MaxSlots /\ clock' = clock + 1
  /\ UNCHANGED <<rows, job, tick, began, past, faulted, overlapped>>
DueSchedule(s) ==
  /\ tick[s] = NoDue
  /\ \E p \in Projects : /\ project[p].due \in 1..clock /\ project[p].flow # "none"
                         /\ tick' = [tick EXCEPT ![s] = [project |-> p, due |-> project[p].due, flow |-> project[p].flow]]
  /\ UNCHANGED <<rows, job, clock, began, past, faulted, overlapped>>

Claimed(s) ==
  LET p == tick[s].project IN
  /\ project' = [project EXCEPT ![p] = [@ EXCEPT !.due = clock + 1]]
  /\ claims' = [claims EXCEPT ![p][tick[s].due] = @ + 1]

\* Faulty variant, for mutation checks: the slot is not compared.
ClaimAnySlot(s) ==
  /\ tick[s] # NoDue /\ tick' = [tick EXCEPT ![s] = NoDue] /\ Saved(tick[s].project) /\ Claimed(s)
  /\ UNCHANGED <<agentRows, flowOf, skills, issued, job, clock, began, strays, leftovers, faulted, overlapped>>

\* claimSchedule(), then startRun(): the run starts when its workflow is there.
ClaimSlot(s) ==
  /\ tick[s] # NoDue /\ tick' = [tick EXCEPT ![s] = NoDue]
  /\ IF project[tick[s].project].due = tick[s].due THEN Claimed(s) ELSE UNCHANGED <<project, claims>>
  /\ UNCHANGED <<agentRows, flowOf, skills, issued, job, clock, began, strays, leftovers, faulted, overlapped>>

-----------------------------------------------------------------------------
StudioNext ==
  \/ \E j \in Jobs :
       \/ BeginSave(j) \/ UpdateAgent(j) \/ CreateAgent(j) \/ AgentsFail(j) \/ WriteFlow(j)
       \/ WriteProject(j) \/ ProjectFails(j) \/ IssueWebhook(j) \/ RemoveProject(j) \/ RemoveFlow(j)
       \/ BeginImport(j) \/ ImportSkill(j) \/ ImportAgent(j) \/ ImportFunctions(j) \/ ImportProject(j) \/ Imported(j) \/ Undo(j)
  \/ DeleteAgent \/ Time \/ \E s \in Tickers : DueSchedule(s) \/ ClaimSlot(s)
StudioSpec == StudioInit /\ [][StudioNext]_studioVars

-----------------------------------------------------------------------------
AllDone == \A j \in Jobs : job[j] = NoJob

Requests ==
  [op : {"none", "save", "import", "remove"},
   at : {"done", "agents", "project", "hook", "flow", "skill", "agent", "functions", "next", "undo"},
   p : Projects \union {"none"}, agents : SUBSET AgentRows, todo : SUBSET AgentRows, new : 0..1,
   made : SUBSET AgentRows, old : BOOLEAN, flow : StudioFlows \union {"none"}, rev : Nat,
   trigger : StudioTriggers \union {"none"}, failed : BOOLEAN, file : FileTypes,
   left : Seq([valid : BOOLEAN, new : 0..1, trigger : StudioTriggers]),
   agent : SUBSET AgentRows, skill : SUBSET Jobs, projects : SUBSET Projects, own : SUBSET AgentRows]

\* The state's types.
StudioTypeOK ==
  /\ agentRows \subseteq AgentRows /\ skills \subseteq Jobs /\ issued \subseteq AgentRows \union StudioFlows \union Projects
  /\ flowOf \in [StudioFlows -> [agents : SUBSET AgentRows, rev : Nat]]
  /\ project \in [Projects -> [agents : SUBSET AgentRows, rev : Nat, flow : StudioFlows \union {"none"},
                               trigger : StudioTriggers \union {"none"}, hook : BOOLEAN, due : Nat]]
  /\ job \in [Jobs -> Requests]
  /\ tick \in [Tickers -> [project : Projects \union {"none"}, due : Nat, flow : StudioFlows \union {"none"}]]
  /\ clock \in 0..MaxSlots /\ began \in Nat /\ claims \in [Projects -> [1..MaxSlots + 1 -> Nat]]
  /\ faulted \subseteq {"agent", "flow", "project", "remove", "import"} /\ overlapped \in BOOLEAN
  /\ strays \subseteq AgentRows /\ leftovers \subseteq AgentRows

\* However saves, imports, removals and ticks fall together, a workflow is one
\* project's, one project has a command and a slot of a schedule is taken once.
\* A save loses an agent it made only when the agents or the project can't be
\* written.  Requests that don't overlap leave each project with the workflow
\* that runs its canvas, no workflow without a project and no webhook without
\* a URL, whatever an import had to undo.
ProjectsStayWhole ==
  /\ \A p \in Projects : \A q \in Projects \ {p} :
       /\ project[p].flow # "none" => project[p].flow # project[q].flow
       /\ ~(project[p].trigger = "chat" /\ project[q].trigger = "chat")
  /\ \A p \in Projects, n \in 1..MaxSlots + 1 : claims[p][n] <= 1
  /\ ~overlapped /\ faulted \intersect {"agent", "project"} = {} => strays = {}
  /\ AllDone /\ ~overlapped /\ faulted = {} =>
       /\ \A p \in Projects : Saved(p) =>
            /\ project[p].flow # "none" /\ flowOf[project[p].flow].rev = project[p].rev
            /\ flowOf[project[p].flow].agents = project[p].agents
            /\ project[p].trigger = "webhook" => project[p].hook
       /\ \A f \in StudioFlows : flowOf[f] # NoStudioFlow => \E p \in Projects : project[p].flow = f

\* "Import is all-or-nothing ... a failure rolls back what was created" (not so:
\* the agents that the save of a project made stay).
ImportIsAllOrNothing == leftovers = {}
=============================================================================
