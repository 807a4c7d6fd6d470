------------------------------ MODULE NativeTurns ------------------------------
(***************************************************************************)
(* One chat turn of an agent that runs at a provider: the events the       *)
(* provider streams (src/service/native_agents/openai_native.ts and        *)
(* claude_native.ts), the functions this server answers, and what goes     *)
(* into the chat's history (NativeAgentLLM in native_agent_service.ts).    *)
(* OpenAI repeats what it waits for in every requires_action event.        *)
(***************************************************************************)
EXTENDS Integers, FiniteSets, Sequences, SequencesExt, Filters

CONSTANTS
  Own,              \* calls this server answers: functions
  Approvals,        \* and approvals the user gives
  Hosted,           \* calls the provider carries out itself
  MaxTexts,         \* bounds of the model: pieces of text,
  MaxTurnFaults     \* streams that break

\* Three kinds of calls.
ASSUME TurnAssumption ==
  /\ MaxTexts \in Nat /\ MaxTurnFaults \in Nat
  /\ Own \intersect Approvals = {} /\ Own \intersect Hosted = {} /\ Approvals \intersect Hosted = {}

Asked == Own \union Approvals

VARIABLES
  backend,      \* "openai" or "claude"
  remote,       \* the provider's turn: "idle", "working", "done", "failed", "cancelled"
  called,       \* calls the agent has made
  required,     \* calls whose answer the provider waits for
  stream,       \* events on their way
  turn,         \* "store", "open", "loop", "act", "rows", "reply", "ended"
  todo,         \* requires_action: calls left to look at
  answered, turnDone, reply, failed, aborted,
  toolRows,     \* tool_call and tool_call_output rows, in order
  history,      \* what the chat's history gets, in order
  texts, turnFaults,
  runs          \* history: how often each call was answered

turnVars == <<backend, remote, called, required, stream, turn, todo, answered, turnDone, reply, failed,
              aborted, toolRows, history, texts, turnFaults, runs>>

remoteSide == <<remote, called, required, texts>>
localSide == <<turn, todo, answered, turnDone, reply, failed, aborted, toolRows, history, runs>>

TurnInit ==
  /\ backend \in {"openai", "claude"} /\ remote = "idle" /\ called = {} /\ required = {}
  /\ stream \in {<<>>, <<[type |-> "idle", calls |-> {}]>>} /\ (stream # <<>> => backend = "openai")
  /\ turn = "store" /\ todo = {} /\ answered = {} /\ turnDone = FALSE /\ reply = 0
  /\ failed = FALSE /\ aborted = FALSE /\ toolRows = <<>> /\ history = <<>>
  /\ texts = 0 /\ turnFaults = 0 /\ runs = [c \in Asked |-> 0]

Row(kind, id) == <<kind, id>>
Event(type, calls) == [type |-> type, calls |-> calls]
Emits(events) == stream' = stream \o events

-----------------------------------------------------------------------------
\* The provider.
AgentWrites ==
  /\ remote = "working" /\ texts < MaxTexts /\ texts' = texts + 1 /\ Emits(<<Event("text", {})>>)
  /\ UNCHANGED <<backend, remote, called, required, localSide, turnFaults>>
AgentCalls(c) ==
  /\ remote = "working" /\ c \in (Asked \union Hosted) \ called /\ called' = called \union {c}
  /\ (c \in Approvals => backend = "openai")
  /\ required' = required \union ({c} \intersect Asked)
  /\ Emits((IF c \in Approvals THEN <<>> ELSE <<Event("start", {c})>>) \o
           (IF c \in Hosted THEN <<Event("end", {c})>>
            ELSE IF backend = "openai" THEN <<Event("requires", required')>> ELSE <<Event("use", {c})>>))
  /\ UNCHANGED <<backend, remote, texts, localSide, turnFaults>>
AgentEnds ==
  /\ remote = "working" /\ required = {}
  /\ \E how \in {"done", "failed"} : remote' = how /\ Emits(<<Event(how, {}), Event("idle", {})>>)
  /\ UNCHANGED <<backend, called, required, texts, localSide, turnFaults>>

-----------------------------------------------------------------------------
\* chatStream(): the user's message is stored, then the turn begins.
StoreInput ==
  /\ turn = "store" /\ turn' = "open" /\ history' = Append(history, Row("input", <<>>))
  /\ UNCHANGED <<backend, remoteSide, stream, todo, answered, turnDone, reply, failed, aborted, toolRows, turnFaults, runs>>
Opened ==
  /\ turn = "open" /\ turn' = "loop" /\ remote' = "working"
  /\ UNCHANGED <<backend, called, required, texts, stream, todo, answered, turnDone, reply, failed, aborted,
                 toolRows, history, turnFaults, runs>>
\* OpenAI's first call of a chat makes the session and the turn, Claude streams
\* first and sends then: no event is missed.
OpenWithOpenAI == backend = "openai" /\ Opened
OpenWithClaude == backend = "claude" /\ Opened

HasRow(kind, id) == \E i \in DOMAIN toolRows : toolRows[i] = Row(kind, id)

\* The rows of an event: the end of a call whose start had no row brings one.
Started(id) == toolRows' = Append(toolRows, Row("tool_call", id))
EndedRow(id) == toolRows' = toolRows \o (IF HasRow("tool_call", id) THEN <<>> ELSE <<Row("tool_call", id)>>)
                                     \o <<Row("tool_call_output", id)>>

\* A function of OpenAI starts under the id of its item, not of its call.
CallId(c) == <<"call", c>>
StartId(c) == IF c \in Own /\ backend = "openai" THEN <<"item", c>> ELSE CallId(c)

Next1 == stream # <<>> /\ turn = "loop" /\ stream' = Tail(stream)
Take(type) == Next1 /\ Head(stream).type = type
Calls == Head(stream).calls

TakeText ==
  /\ Take("text") /\ reply' = reply + 1
  /\ UNCHANGED <<backend, remoteSide, turn, todo, answered, turnDone, failed, aborted, toolRows, history, turnFaults, runs>>
ShowStart(from) ==
  /\ backend = from /\ Take("start") /\ \E c \in Calls : Started(StartId(c))
  /\ UNCHANGED <<backend, remoteSide, turn, todo, answered, turnDone, reply, failed, aborted, history, turnFaults, runs>>
TakeStart == ShowStart("openai")
TakeToolUse == ShowStart("claude")
ShowEnd(from) ==
  /\ backend = from /\ Take("end") /\ \E c \in Calls : EndedRow(CallId(c))
  /\ UNCHANGED <<backend, remoteSide, turn, todo, answered, turnDone, reply, failed, aborted, history, turnFaults, runs>>

TakeEnd == ShowEnd("openai")
TakeToolResult == ShowEnd("claude")

\* Faulty variant, for mutation checks: what was answered is answered again.
AnyRequired(calls) == calls

\* requires_action and custom_tool_use: the calls not answered yet.
NewlyRequired(calls) == calls \ answered

Waited(calls) ==
  /\ todo' = calls /\ answered' = answered \union Calls
  /\ turn' = IF calls = {} THEN "loop" ELSE "act"
  /\ UNCHANGED <<backend, remoteSide, turnDone, reply, failed, aborted, toolRows, history, turnFaults, runs>>
TakeRequired == Take("requires") /\ Waited(NewlyRequired(Calls))
TakeCustomToolUse == Take("use") /\ Waited(Calls)

\* One call is run, or one approval waited for, and its answer sent.
Answer(c) ==
  /\ turn = "act" /\ c \in todo /\ todo' = todo \ {c} /\ turn' = (IF todo' = {} THEN "loop" ELSE "act")
  /\ runs' = [runs EXCEPT ![c] = @ + 1]
  /\ required' = required \ {c}
  /\ stream' = IF backend = "openai" /\ remote = "working" /\ required' # {}
               THEN Append(stream, Event("requires", required')) ELSE stream
  /\ UNCHANGED <<backend, remote, called, texts, answered, turnDone, reply, failed, aborted, history, turnFaults>>
AnswerFunction(c) == backend = "openai" /\ c \in Own /\ Answer(c) /\ EndedRow(CallId(c))
ApprovalAnswered(c) ==
  c \in Approvals /\ Answer(c)
    /\ toolRows' = toolRows \o <<Row("tool_call", CallId(c)), Row("tool_call_output", CallId(c))>>
AnswerCustomTool(c) == backend = "claude" /\ Answer(c) /\ EndedRow(CallId(c))

TakeOutcome ==
  /\ Take("done") \/ Take("failed")
  /\ turnDone' = TRUE /\ failed' = (failed \/ Head(stream).type = "failed")
  /\ UNCHANGED <<backend, remoteSide, turn, todo, answered, reply, aborted, toolRows, history, turnFaults, runs>>

\* idle: OpenAI's session begins idle, so only the idle after our turn ends it.
Idled(over) ==
  /\ Take("idle") /\ turn' = IF over THEN "rows" ELSE "loop"
  /\ UNCHANGED <<backend, remoteSide, todo, answered, turnDone, reply, failed, aborted, toolRows, history, turnFaults, runs>>
TakeIdle == backend = "openai" /\ Idled(turnDone)
TakeStatusIdle == backend = "claude" /\ Idled(TRUE)

\* The user stops the turn: the provider is told, the stream ends.
StopTurn ==
  /\ turn \in {"loop", "act"} /\ ~aborted /\ aborted' = TRUE
  /\ remote' = (IF remote = "working" THEN "cancelled" ELSE remote)
  /\ stream' = <<>>
  /\ UNCHANGED <<backend, called, required, texts, turn, todo, answered, turnDone, reply, failed, toolRows, history, turnFaults, runs>>
StreamEnds ==
  /\ turn = "loop" /\ aborted /\ turn' = "rows"
  /\ UNCHANGED <<backend, remoteSide, stream, todo, answered, turnDone, reply, failed, aborted, toolRows, history, turnFaults, runs>>
StreamBreaks ==
  /\ turn \in {"loop", "act"} /\ ~aborted /\ turnFaults < MaxTurnFaults /\ turnFaults' = turnFaults + 1
  /\ failed' = TRUE /\ turn' = "rows"
  /\ UNCHANGED <<backend, remoteSide, stream, todo, answered, turnDone, reply, aborted, toolRows, history, runs>>

\* The rows with both halves are stored, calls first.
Paired == Only(toolRows, {r \in ToSet(toolRows) : r[1] = "tool_call_output" \/ HasRow("tool_call_output", r[2])})
OfKind(kind) == {r \in ToSet(toolRows) : r[1] = kind}
Ordered == Only(Paired, OfKind("tool_call")) \o Only(Paired, OfKind("tool_call_output"))

StoreRows ==
  /\ turn = "rows" /\ turn' = "reply"
  /\ \/ history' = history \o Ordered /\ UNCHANGED turnFaults
     \/ turnFaults < MaxTurnFaults /\ turnFaults' = turnFaults + 1 /\ UNCHANGED history
  /\ UNCHANGED <<backend, remoteSide, stream, todo, answered, turnDone, reply, failed, aborted, toolRows, runs>>
StoreReply ==
  /\ turn = "reply" /\ turn' = "ended"
  /\ history' = IF reply > 0 THEN Append(history, Row("reply", <<>>)) ELSE history
  /\ UNCHANGED <<backend, remoteSide, stream, todo, answered, turnDone, reply, failed, aborted, toolRows, turnFaults, runs>>

TurnNext ==
  \/ AgentWrites \/ AgentEnds \/ \E c \in Asked \union Hosted : AgentCalls(c)
  \/ StoreInput \/ OpenWithOpenAI \/ OpenWithClaude \/ TakeText
  \/ TakeStart \/ TakeToolUse \/ TakeEnd \/ TakeToolResult \/ TakeRequired \/ TakeCustomToolUse
  \/ \E c \in Asked : AnswerFunction(c) \/ ApprovalAnswered(c) \/ AnswerCustomTool(c)
  \/ TakeOutcome \/ TakeIdle \/ TakeStatusIdle
  \/ StopTurn \/ StreamEnds \/ StreamBreaks \/ StoreRows \/ StoreReply

TurnSpec == TurnInit /\ [][TurnNext]_turnVars

-----------------------------------------------------------------------------
\* A call is answered once, however often the provider repeats it; the history
\* holds the message, whole pairs of call and output with the calls first, and
\* the reply last; and a turn no one stops is heard out to the provider's end.
Whole(rows) ==
  \A i \in DOMAIN rows, j \in DOMAIN rows :
    /\ i # j => rows[i] # rows[j]
    /\ rows[i][1] = "reply" => i = Len(rows)
    /\ rows[i][1] = "tool_call" =>
         \E k \in i + 1..Len(rows) : rows[k] = Row("tool_call_output", rows[i][2])
    /\ rows[i][1] = "tool_call_output" /\ rows[j][1] = "tool_call" => j < i

TurnsAreHeardOut ==
  /\ \A c \in Asked : runs[c] <= 1
  /\ Whole(history)
  /\ turn = "ended" /\ ~aborted /\ turnFaults = 0 =>
       /\ remote \in {"done", "failed"} /\ reply = texts
       /\ \A c \in called : HasRow("tool_call_output", CallId(c))
=============================================================================
