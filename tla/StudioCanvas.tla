------------------------------ MODULE StudioCanvas ------------------------------
(***************************************************************************)
(* The canvas of Agent Studio (src/core/studio/studio_canvas.ts): how it is *)
(* compiled into a workflow that src/core/flows/flow_validate.ts accepts,  *)
(* and how what is plugged into an agent's nodes becomes the agent's       *)
(* settings and is drawn again when the project is opened.  A canvas is    *)
(* drawn, or a project edited, step by step.  A step of a compiled         *)
(* workflow is the set of canvas nodes it stands for: agents that run side *)
(* by side are one step.                                                   *)
(***************************************************************************)
EXTENDS Naturals, FiniteSets, Sequences, SequencesExt, Filters

CONSTANTS
  CanvasNodes, KindOf,     \* nodes and their types: "trigger", "agent", "condition", "approval", "end"
  MaxDrawn,                \* bounds of the model: connections drawn,
  MaxBranches,             \* agents side by side,
  Plugs,                   \* sub-nodes: <<"model", m>>, <<"tool", t>>, <<"skill", s>>, <<"skill", "*">>
  Occurrences,             \* the nodes of one agent, in the canvas's order
  MaxPlugged               \* edits of a project

PlugTypes == {"model", "tool", "skill"}

ASSUME CanvasAssumption ==
  /\ {MaxDrawn, MaxBranches, MaxPlugged} \subseteq Nat /\ Occurrences \in Nat \ {0}
  /\ IsFiniteSet(CanvasNodes) /\ "reply" \notin CanvasNodes
  /\ KindOf \in [CanvasNodes -> {"trigger", "agent", "condition", "approval", "end"}]
  /\ IsFiniteSet(Plugs) /\ Plugs \subseteq PlugTypes \X STRING
  /\ <<"skill", "*">> \in Plugs /\ <<"model", "none">> \notin Plugs

VARIABLES
  page,        \* "draw" or "plug"
  drawn,       \* connections between nodes: [from, branch, to]
  deliver,     \* the result is sent
  settings,    \* the agent's row: [model, tools, mode, skills]
  subs,        \* what is plugged into each occurrence, in order of connection
  freshId,       \* nothing was edited since the project was opened
  plugged      \* edits so far

canvasVars == <<page, drawn, deliver, settings, subs, freshId, plugged>>

-----------------------------------------------------------------------------
\* The workflow.
Branches(n) == CASE KindOf[n] = "condition" -> {"true", "false"}
                 [] KindOf[n] = "approval" -> {"approved", "rejected"} [] OTHER -> {""}
Into(edges, n) == {e \in edges : e.to = n}
OutOf(edges, n) == {e \in edges : e.from = n}

\* The connections that leave one output.
Fan(n, b) == {e \in drawn : e.from = n /\ e.branch = b}
Fans == {f \in {Fan(e.from, e.branch) : e \in drawn} : Cardinality(f) > 1}
Heads(f) == {e.to : e \in f}

\* Faulty variant, for mutation checks: the agents need not meet again.
SideBySideOnly(f) ==
  \A n \in Heads(f) : KindOf[n] = "agent" /\ Cardinality(Into(drawn, n)) = 1 /\ Cardinality(OutOf(drawn, n)) = 1

\* groupParallel(): only agents, few enough, reached from here alone, with one
\* next step, the same for all.
SideBySide(f) ==
  /\ \A n \in Heads(f) : KindOf[n] = "agent" /\ Cardinality(Into(drawn, n)) = 1 /\ Cardinality(OutOf(drawn, n)) = 1
  /\ Cardinality(f) <= MaxBranches
  /\ \E join \in CanvasNodes : \A n \in Heads(f) : \E e \in OutOf(drawn, n) : e.to = join

StepOf(n) == IF \E f \in Fans : n \in Heads(f) THEN Heads(CHOOSE f \in Fans : n \in Heads(f)) ELSE {n}
Reply(n) == {"reply", n}
Steps == {StepOf(n) : n \in CanvasNodes} \union
         (IF deliver THEN {Reply(n) : n \in {m \in CanvasNodes : KindOf[m] = "end"}} ELSE {})
KindOfStep(s) == IF "reply" \in s THEN "notify" ELSE IF Cardinality(s) > 1 THEN "parallel" ELSE KindOf[CHOOSE n \in s : TRUE]

\* compileFlow(): one connection into the agents side by side and one out of
\* them; the result is sent in front of every End.
Join(f) == CHOOSE m \in CanvasNodes : \E n \in Heads(f) : \E e \in OutOf(drawn, n) : e.to = m
Target(n) == IF deliver /\ KindOf[n] = "end" THEN Reply(n) ELSE StepOf(n)
Beside == UNION {Heads(f) : f \in Fans}
Compiled ==
  {[from |-> {e.from}, branch |-> e.branch, to |-> Target(e.to)] : e \in {d \in drawn : d.from \notin Beside}}
    \union {[from |-> Heads(f), branch |-> "", to |-> Target(Join(f))] : f \in Fans}
    \union (IF deliver THEN {[from |-> Reply(n), branch |-> "", to |-> {n}] : n \in {m \in CanvasNodes : KindOf[m] = "end"}}
            ELSE {})

\* validateFlow(): the outgoing connections of each type of step.
Outgoing(edges, s) ==
  LET out == OutOf(edges, s)
      branches == {e.branch : e \in out} IN
  /\ Cardinality(out) = Cardinality(branches)
  /\ CASE KindOfStep(s) = "end" -> out = {}
       [] KindOfStep(s) = "condition" -> branches = {"true", "false"}
       [] KindOfStep(s) = "approval" -> "approved" \in branches /\ branches \subseteq {"approved", "rejected"}
       [] OTHER -> branches = {""}

\* Where a step leads, in at most n connections.
Reach(edges, s) ==
  LET r[n \in 0..Cardinality(Steps)] ==
        IF n = 0 THEN {s} ELSE LET before == r[n - 1] IN before \union {e.to : e \in {d \in edges : d.from \in before}}
  IN r[Cardinality(Steps)]
Loops(edges) == \E e \in edges : e.from \in Reach(edges, e.to)
CanvasStart == CHOOSE s \in Steps : KindOfStep(s) = "trigger"

Accepted(edges) ==
  /\ \E s \in Steps : KindOfStep(s) = "end"
  /\ \A s \in Steps : Outgoing(edges, s)
  /\ \A e \in edges : e.from # e.to /\ e.to # CanvasStart
  /\ ~Loops(edges)
  /\ Reach(edges, CanvasStart) = Steps

Saves == (\A f \in Fans : SideBySide(f)) /\ Accepted(Compiled)

-----------------------------------------------------------------------------
\* The settings.
Keys(plugs, type) == {p[2] : p \in {q \in plugs : q[1] = type}}
All == UNION {ToSet(subs[o]) : o \in DOMAIN subs}

\* attachments() of one node and mergeAttachments() of an agent's: the first model wins.
Attached(o) == ToSet(subs[o])
ModelsOf(o) == {k \in DOMAIN subs[o] : subs[o][k][1] = "model"}
FirstModel ==
  LET having == {o \in DOMAIN subs : ModelsOf(o) # {}} IN
  IF having = {} THEN "none" ELSE subs[Min(having)][Min(ModelsOf(Min(having)))][2]

\* Faulty variant, for mutation checks: the first occurrence alone.
MergedOfOne == [model |-> FirstModel, tools |-> Keys(Attached(1), "tool"), skills |-> Keys(Attached(1), "skill")]

Merged == [model |-> FirstModel, tools |-> Keys(All, "tool"), skills |-> Keys(All, "skill")]

\* agentBody(): the settings that are saved.
Body(att) ==
  [model |-> att.model, tools |-> att.tools,
   mode |-> IF "*" \in att.skills THEN "all" ELSE IF att.skills # {} THEN "selected" ELSE "none",
   skills |-> att.skills \ {"*"}]

\* primaryAgentNodes(): the occurrence with the most sub-nodes, the first on ties.
Primary == CHOOSE o \in DOMAIN subs : \A p \in DOMAIN subs :
             Len(subs[o]) > Len(subs[p]) \/ (Len(subs[o]) = Len(subs[p]) /\ o <= p)

\* syncFromAgents(): what the agent has, on its primary node; what was there
\* already keeps its place.
Wanted(row) ==
  (IF row.model = "none" THEN {} ELSE {<<"model", row.model>>}) \union {<<"tool", t>> : t \in row.tools}
    \union (IF row.mode = "all" THEN {<<"skill", "*">>}
            ELSE IF row.mode = "selected" THEN {<<"skill", s>> : s \in row.skills} ELSE {})
Synced(row) ==
  [o \in DOMAIN subs |->
     IF o # Primary THEN <<>>
     ELSE Only(subs[o], Wanted(row)) \o SetToSeq(Wanted(row) \ ToSet(subs[o]))]

-----------------------------------------------------------------------------
NoSettings == [model |-> "none", tools |-> {}, mode |-> "none", skills |-> {}]
CanvasInit ==
  /\ page \in {"draw", "plug"} /\ drawn = {} /\ deliver \in BOOLEAN /\ (page = "plug" => ~deliver)
  /\ settings = NoSettings /\ subs = [o \in 1..Occurrences |-> <<>>] /\ freshId = TRUE /\ plugged = 0

Draw ==
  /\ page = "draw" /\ Cardinality(drawn) < MaxDrawn
  /\ \E n \in CanvasNodes, m \in CanvasNodes : \E b \in Branches(n) :
       drawn' = drawn \union {[from |-> n, branch |-> b, to |-> m]}
  /\ UNCHANGED <<page, deliver, settings, subs, freshId, plugged>>

\* parseCanvas(): a sub-node is plugged into one node, a node has one model.
Plug ==
  /\ page = "plug" /\ plugged < MaxPlugged /\ plugged' = plugged + 1 /\ freshId' = FALSE
  /\ \E o \in DOMAIN subs, p \in Plugs :
       \/ /\ p \notin ToSet(subs[o]) /\ (p[1] = "model" => \A q \in ToSet(subs[o]) : q[1] # "model")
          /\ subs' = [subs EXCEPT ![o] = Append(@, p)]
       \/ p \in ToSet(subs[o]) /\ subs' = [subs EXCEPT ![o] = Only(@, Plugs \ {p})]
  /\ UNCHANGED <<page, drawn, deliver, settings>>

SaveCanvas ==
  /\ page = "plug" /\ settings' = Body(Merged) /\ freshId' = TRUE
  /\ subs' = Synced(Body(Merged))
  /\ UNCHANGED <<page, drawn, deliver, plugged>>

\* The agent is changed on the Agents page, and the project opened after that.
EditElsewhere ==
  /\ page = "plug" /\ plugged < MaxPlugged /\ plugged' = plugged + 1
  /\ \E tools \in SUBSET Keys(Plugs, "tool"), mode \in {"all", "selected", "none"} :
       settings' = [settings EXCEPT !.tools = tools, !.mode = mode]
  /\ subs' = Synced(settings') /\ freshId' = TRUE
  /\ UNCHANGED <<page, drawn, deliver>>

CanvasNext == Draw \/ Plug \/ SaveCanvas \/ EditElsewhere
CanvasSpec == CanvasInit /\ [][CanvasNext]_canvasVars

-----------------------------------------------------------------------------
(* The state's types. *)
CanvasTypeOK ==
  /\ page \in {"draw", "plug"} /\ deliver \in BOOLEAN /\ freshId \in BOOLEAN /\ plugged \in Nat
  /\ IsFiniteSet(drawn)
  /\ drawn \subseteq [from : CanvasNodes, branch : {"", "true", "false", "approved", "rejected"}, to : CanvasNodes]
  /\ settings \in [model : {"none"} \union Keys(Plugs, "model"), tools : SUBSET Keys(Plugs, "tool"),
                   mode : {"none", "selected", "all"}, skills : SUBSET (Keys(Plugs, "skill") \ {"*"})]
  /\ subs \in [1 .. Occurrences -> Seq(Plugs)]

\* A project that can be saved runs what is drawn: every connection is part of
\* the workflow and the workflow has no other, each outcome of a step leads to
\* one place, and from every step a run comes to an End.
RunsWhatIsDrawn ==
  Saves =>
    /\ \A e \in drawn : \E d \in Compiled : e.from \in d.from /\ e.to \in d.to
    /\ \A d \in Compiled : \A n \in d.from \ {"reply"}, m \in d.to \ {"reply"} :
         "reply" \in d.from \/ \E e \in drawn : e.from = n /\ e.to = m /\ d.branch \in {"", e.branch}
    /\ \A d \in Compiled, e \in Compiled : d.from = e.from /\ d.branch = e.branch => d = e
    /\ \A s \in Steps : \E end \in Reach(Compiled, s) : KindOfStep(end) = "end"

\* What an agent may use: its model, its tools, its skills.
InEffect(row) == [model |-> row.model, tools |-> row.tools,
                  skills |-> IF row.mode = "all" THEN {"*"} ELSE IF row.mode = "selected" THEN row.skills ELSE {}]

\* Opening a project and saving it as it is changes nothing about its agents,
\* however often they appear on it and whatever was changed elsewhere before.
OpenedIsSaved == [][freshId /\ settings' # settings /\ plugged' = plugged => InEffect(settings') = InEffect(settings)]_canvasVars
=============================================================================
