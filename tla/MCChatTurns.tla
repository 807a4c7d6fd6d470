---------------------------- MODULE MCChatTurns ----------------------------
(***************************************************************************)
(* Instances of ChatTurns for TLC.  A user message weighs 2, an answer or  *)
(* a tool's result 3, a tool call 1; the budget is 5, and a compaction     *)
(* keeps at most 2, so one question.                                       *)
(***************************************************************************)
EXTENDS ChatTurns

MCWeight == [r \in Roles |->
  CASE r = "user" -> 2 [] r = "tool_call" -> 1 [] OTHER -> 3]

Old(role, n) == Message(role, "past", <<n, n>>)

\* A new chat, and one whose history is over the budget.
MCPast ==
  { <<>>,
    <<Old("user", 0), Old("tool_call", 1), Old("tool_call_output", 1),
      Old("assistant", 0), Old("user", 0), Old("assistant", 0)>> }

\* An agent's turn, alone: two reads side by side and then a write, or one
\* write, on a model that two providers serve; or two turns of plain chat.
MCAsked == {{"agent"}, {"chat", "more"}}
MCMenu == [t \in Turns |-> IF t = "agent" THEN {<<"read", "read", "write">>, <<"write">>} ELSE {}]
MCRoutes == [t \in Turns |-> IF t = "agent" THEN 2 ELSE 1]
=============================================================================
