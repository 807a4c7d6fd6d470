----------------------------- MODULE MCFlowRuns -----------------------------
(***************************************************************************)
(* Three small workflows for FlowRuns.  "review" has a condition in front  *)
(* of the approval and both outcomes behind it; "strict" has no Rejected   *)
(* edge, so a rejection ends the run; in "open" the approval became an     *)
(* agent step.                                                             *)
(***************************************************************************)
EXTENDS FlowRuns

MCNodes == {"start", "check", "ok", "tell", "end"}
MCFlows == {"review", "strict", "open"}

MCKind == [f \in MCFlows |-> [n \in MCNodes |->
  CASE n = "start" -> "instant"
    [] n = "check" -> IF f = "open" THEN "absent" ELSE "model"
    [] n = "ok"    -> IF f = "open" THEN "model" ELSE "approval"
    [] n = "tell"  -> IF f = "review" THEN "instant" ELSE "absent"
    [] n = "end"   -> "end"]]

MCSucc == [f \in MCFlows |-> [n \in MCNodes |->
  CASE n = "start" -> {<<"next", IF f = "open" THEN "ok" ELSE "check">>}
    [] n = "check" /\ f = "review" -> {<<"yes", "ok">>, <<"no", "end">>}
    [] n = "check" /\ f = "strict" -> {<<"next", "ok">>}
    [] n = "ok" /\ f = "review" -> {<<"approved", "tell">>, <<"rejected", "end">>}
    [] n = "ok" /\ f = "strict" -> {<<"approved", "end">>}
    [] n = "ok" /\ f = "open" -> {<<"next", "end">>}
    [] n = "tell" /\ f = "review" -> {<<"next", "end">>}
    [] OTHER -> {}]]
=============================================================================
