-------------------------- MODULE MCConversations --------------------------
(***************************************************************************)
(* Instances of Conversations for TLC: what earlier versions left behind.  *)
(***************************************************************************)
EXTENDS Conversations

\* A row that is no message, parts that are text in part, and parts without.
MCOldRows ==
  LET Row(role, content, parts) == [role |-> role, content |-> content, parts |-> parts] IN
  << Row("none", "null", <<>>), Row("user", "array", <<"other", "text">>),
     Row("assistant", "array", <<"other">>) >>
=============================================================================
