------------------------------ MODULE NativeAgents ------------------------------
(***************************************************************************)
(* Agents that live at a provider (src/service/native_agents/              *)
(* native_agent_service.ts, its repository and the two backends): every    *)
(* change goes to the provider first and is saved here when it has         *)
(* accepted it.  Requests run side by side; each await is a step.          *)
(***************************************************************************)
EXTENDS Naturals, FiniteSets

CONSTANTS
  AgentIds, Functions,   \* agents and functions of agents (HTTP or code)
  AgentChats,            \* chats that may be an agent's
  Requests,
  MaxRequests,           \* bounds of the model: requests made,
  MaxNativeFaults        \* calls and writes that fail, processes that die

ASSUME NativeAssumption ==
  MaxRequests \in Nat /\ MaxNativeFaults \in Nat /\ "none" \notin AgentIds

VARIABLES
  agentRow,      \* native_agents: "none", "saved", "deleted"
  saved,         \* native_agent_functions and native_agent_code_functions of each agent
  agentChat,     \* sessions.native_agent_id: "none" or an agent
  remoteId,      \* sessions.remote_session_id is set
  remoteAgent,   \* at the provider: "none", "there", "removed"
  tools,         \* at the provider: the functions each agent may call
  remoteSession, \* at the provider: sessions, by chat
  request,       \* [op, agent, fn, read, chat, at]
  made,          \* requests made
  overlapped,    \* history: two requests about one agent at once
  providerFaults, storeFaults

nativeVars == <<agentRow, saved, agentChat, remoteId, remoteAgent, tools, remoteSession, request,
                made, overlapped, providerFaults, storeFaults>>

localVars == <<agentRow, saved, agentChat, remoteId>>
remoteVars == <<remoteAgent, tools, remoteSession>>
historyVars == <<made, overlapped, providerFaults, storeFaults>>

NoRequest == [op |-> "none", agent |-> "none", fn |-> "none", read |-> {}, chat |-> "none", at |-> "rest"]

NativeInit ==
  /\ agentRow = [a \in AgentIds |-> "none"] /\ saved = [a \in AgentIds |-> {}]
  /\ agentChat = [c \in AgentChats |-> "none"] /\ remoteId = [c \in AgentChats |-> FALSE]
  /\ remoteAgent = [a \in AgentIds |-> "none"] /\ tools = [a \in AgentIds |-> {}]
  /\ remoteSession = [c \in AgentChats |-> FALSE]
  /\ request = [r \in Requests |-> NoRequest] /\ made = 0 /\ overlapped = FALSE
  /\ providerFaults = 0 /\ storeFaults = 0

At(r, op, at) == request[r].op = op /\ request[r].at = at
To(r, at) == request' = [request EXCEPT ![r].at = at]
End(r) == request' = [request EXCEPT ![r] = NoRequest]
Faults == providerFaults + storeFaults

\* A request begins with get(): the agent is the user's.
BeginChange(r, op, a, f, c) ==
  /\ request[r] = NoRequest /\ made < MaxRequests /\ made' = made + 1
  /\ request' = [request EXCEPT ![r] = [op |-> op, agent |-> a, fn |-> f, read |-> {}, chat |-> c, at |-> "begin"]]
  /\ agentRow[a] = (IF op = "create" THEN "none" ELSE "saved")
  /\ overlapped' = (overlapped \/ \E q \in Requests : request[q].agent = a)
  /\ UNCHANGED <<localVars, remoteVars, providerFaults, storeFaults>>

\* A call to the provider fails: the request ends.
ProviderRefuses(r) ==
  /\ At(r, "create", "begin") \/ At(r, "turn", "session") \/ request[r].at = "push"
  /\ Faults < MaxNativeFaults /\ providerFaults' = providerFaults + 1 /\ End(r)
  /\ UNCHANGED <<localVars, remoteVars, made, overlapped, storeFaults>>

\* create(): the agent is made at the provider; then its row, or it is removed again.
CreateRemote(r) ==
  LET a == request[r].agent IN
  /\ At(r, "create", "begin") /\ remoteAgent[a] = "none" /\ remoteAgent' = [remoteAgent EXCEPT ![a] = "there"]
  /\ To(r, "save") /\ UNCHANGED <<localVars, tools, remoteSession, historyVars>>
CreateRow(r) ==
  LET a == request[r].agent IN
  /\ At(r, "create", "save")
  /\ \/ agentRow' = [agentRow EXCEPT ![a] = "saved"] /\ End(r) /\ UNCHANGED storeFaults
     \/ /\ Faults < MaxNativeFaults /\ storeFaults' = storeFaults + 1 /\ To(r, "undo") /\ UNCHANGED agentRow
  /\ UNCHANGED <<saved, agentChat, remoteId, remoteVars, made, overlapped, providerFaults>>
UndoCreate(r) ==
  /\ At(r, "create", "undo") /\ End(r)
  /\ \/ remoteAgent' = [remoteAgent EXCEPT ![request[r].agent] = "removed"] /\ UNCHANGED providerFaults
     \/ Faults < MaxNativeFaults /\ providerFaults' = providerFaults + 1 /\ UNCHANGED remoteAgent
  /\ UNCHANGED <<localVars, tools, remoteSession, made, overlapped, storeFaults>>

\* functionsOf() and assertNameFree(): the request may be wrong.
ReadFunctions(r) ==
  LET q == request[r] IN
  /\ q.op \in {"add", "drop", "update"} /\ q.at = "begin"
  /\ IF q.op = "update" \/ (q.op = "drop") = (q.fn \in saved[q.agent])
     THEN request' = [request EXCEPT ![r] = [@ EXCEPT !.read = saved[q.agent], !.at = "push"]]
     ELSE End(r)
  /\ UNCHANGED <<localVars, remoteVars, historyVars>>

\* The functions the agent is to have.
Wanted(q) == CASE q.op = "add" -> q.read \union {q.fn} [] q.op = "drop" -> q.read \ {q.fn} [] OTHER -> q.read

\* Faulty variant, for mutation checks: what was there goes.
PushOwn(r) ==
  /\ request[r].at = "push" /\ remoteAgent[request[r].agent] = "there"
  /\ tools' = [tools EXCEPT ![request[r].agent] = Wanted([request[r] EXCEPT !.read = {}])]
  /\ To(r, "save") /\ UNCHANGED <<localVars, remoteAgent, remoteSession, historyVars>>

\* pushTools(), and updateAgent() of update().
PushTools(r) ==
  /\ request[r].at = "push" /\ remoteAgent[request[r].agent] = "there"
  /\ tools' = [tools EXCEPT ![request[r].agent] = Wanted(request[r])]
  /\ To(r, "save") /\ UNCHANGED <<localVars, remoteAgent, remoteSession, historyVars>>

\* The provider has no such agent any more.
PushToNone(r) ==
  /\ request[r].at = "push" /\ remoteAgent[request[r].agent] # "there" /\ End(r)
  /\ UNCHANGED <<localVars, remoteVars, historyVars>>

\* createFunction(), deleteFunction() and update() of the repository.
SaveFunctions(r) ==
  LET q == request[r] IN
  /\ q.op \in {"add", "drop", "update"} /\ q.at = "save" /\ End(r)
  /\ \/ /\ saved' = [saved EXCEPT ![q.agent] = CASE agentRow[q.agent] # "saved" -> @
                                                 [] q.op = "add" -> @ \union {q.fn}
                                                 [] q.op = "drop" -> @ \ {q.fn} [] OTHER -> @]
        /\ UNCHANGED storeFaults
     \/ Faults < MaxNativeFaults /\ storeFaults' = storeFaults + 1 /\ UNCHANGED saved
  /\ UNCHANGED <<agentRow, agentChat, remoteId, remoteVars, made, overlapped, providerFaults>>

\* delete(): the sessions, the agent, then the row; the provider's failures are
\* ignored.  The row takes its functions along and leaves its chats.
RemoveSessions(r) ==
  /\ At(r, "delete", "begin") /\ To(r, "agent")
  /\ \/ /\ remoteSession' = [c \in AgentChats |-> remoteSession[c] /\ ~(agentChat[c] = request[r].agent /\ remoteId[c])]
        /\ UNCHANGED providerFaults
     \/ Faults < MaxNativeFaults /\ providerFaults' = providerFaults + 1 /\ UNCHANGED remoteSession
  /\ UNCHANGED <<localVars, remoteAgent, tools, made, overlapped, storeFaults>>
RemoveAgent(r) ==
  /\ At(r, "delete", "agent") /\ To(r, "row")
  /\ \/ remoteAgent' = [remoteAgent EXCEPT ![request[r].agent] = "removed"] /\ UNCHANGED providerFaults
     \/ Faults < MaxNativeFaults /\ providerFaults' = providerFaults + 1 /\ UNCHANGED remoteAgent
  /\ UNCHANGED <<localVars, tools, remoteSession, made, overlapped, storeFaults>>
DeleteRow(r) ==
  LET a == request[r].agent IN
  /\ At(r, "delete", "row") /\ End(r)
  /\ agentRow' = [agentRow EXCEPT ![a] = "deleted"] /\ saved' = [saved EXCEPT ![a] = {}]
  /\ agentChat' = [c \in AgentChats |-> IF agentChat[c] = a THEN "none" ELSE agentChat[c]]
  /\ UNCHANGED <<remoteId, remoteVars, historyVars>>

\* A turn: agentForSession() or runOnce() attaches the chat; the first turn
\* makes the session at the provider, and onSession keeps its id.
AttachSession(r) ==
  LET q == request[r] IN
  /\ At(r, "turn", "begin")
  /\ agentChat' = IF agentChat[q.chat] = "none" /\ agentRow[q.agent] = "saved"
                  THEN [agentChat EXCEPT ![q.chat] = q.agent] ELSE agentChat
  /\ IF agentChat'[q.chat] = q.agent /\ ~remoteId[q.chat] THEN To(r, "session") ELSE End(r)
  /\ UNCHANGED <<agentRow, saved, remoteId, remoteVars, historyVars>>
CreateRemoteSession(r) ==
  LET q == request[r] IN
  /\ At(r, "turn", "session")
  /\ IF remoteAgent[q.agent] = "there" THEN remoteSession' = [remoteSession EXCEPT ![q.chat] = TRUE] /\ To(r, "id")
     ELSE End(r) /\ UNCHANGED remoteSession
  /\ UNCHANGED <<localVars, remoteAgent, tools, historyVars>>
SetRemoteSession(r) ==
  /\ At(r, "turn", "id") /\ remoteId' = [remoteId EXCEPT ![request[r].chat] = TRUE] /\ End(r)
  /\ UNCHANGED <<agentRow, saved, agentChat, remoteVars, historyVars>>

\* The process dies in the middle of a request.
RequestDies(r) ==
  /\ request[r] # NoRequest /\ Faults < MaxNativeFaults /\ storeFaults' = storeFaults + 1 /\ End(r)
  /\ UNCHANGED <<localVars, remoteVars, made, overlapped, providerFaults>>

NativeNext ==
  \E r \in Requests :
    \/ \E a \in AgentIds : \/ \E op \in {"create", "update", "delete"} : BeginChange(r, op, a, "none", "none")
                           \/ \E f \in Functions, op \in {"add", "drop"} : BeginChange(r, op, a, f, "none")
                           \/ \E c \in AgentChats : BeginChange(r, "turn", a, "none", c)
    \/ ProviderRefuses(r) \/ CreateRemote(r) \/ CreateRow(r) \/ UndoCreate(r) \/ ReadFunctions(r)
    \/ PushTools(r) \/ PushToNone(r) \/ SaveFunctions(r) \/ RemoveSessions(r) \/ RemoveAgent(r) \/ DeleteRow(r)
    \/ AttachSession(r) \/ CreateRemoteSession(r) \/ SetRemoteSession(r) \/ RequestDies(r)

NativeSpec == NativeInit /\ [][NativeNext]_nativeVars

-----------------------------------------------------------------------------
\* Whatever the provider refuses, between requests it holds what is saved here:
\* each agent with its functions, no agent and no session of one that is gone.
\* (Requests about one agent that overlap, writes that fail here and clean-up
\* calls that fail at the provider can part the two.)
AtRest == \A r \in Requests : request[r] = NoRequest
ProviderHoldsWhatIsSaved ==
  AtRest /\ ~overlapped /\ storeFaults = 0 =>
    \A a \in AgentIds :
      /\ agentRow[a] = "saved" => remoteAgent[a] = "there" /\ tools[a] = saved[a]
      /\ providerFaults = 0 /\ agentRow[a] = "deleted" => remoteAgent[a] = "removed"
      /\ \A c \in AgentChats : providerFaults = 0 /\ remoteSession[c] => agentChat[c] \in AgentIds

\* Without that condition on overlap (not so: two functions added at once).
ToolListIsSaved ==
  AtRest /\ storeFaults = 0 => \A a \in AgentIds : agentRow[a] = "saved" => tools[a] = saved[a]
=============================================================================
