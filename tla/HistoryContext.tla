--------------------------- MODULE HistoryContext ---------------------------
(***************************************************************************)
(* What part of a chat's stored history is sent to the model: the pure     *)
(* part of src/core/context/context_engine.ts (SummaryContextEngine) and   *)
(* src/llms/history_window.ts.                                             *)
(*                                                                         *)
(* A history h is a sequence of messages; only their roles and sizes       *)
(* matter.  Every choice keeps a suffix of h, named by its first index     *)
(* (Len(h) + 1: nothing is kept).  A summary covers the first `upto`       *)
(* messages.                                                               *)
(***************************************************************************)
EXTENDS Integers, Sequences, FiniteSetsExt

CONSTANTS
  Weight,  \* Weight[role]: estimateTokens of a message of that role
  Budget,  \* historyTokens
  Keep     \* historyTokens * keepRatio

Roles == {"user", "assistant", "tool_call", "tool_call_output"}

ASSUME ContextAssumption ==
  /\ Weight \in [Roles -> Nat]
  /\ Budget \in Nat /\ Keep \in Nat

IsUser(h, i) == h[i].role = "user"

\* sumTokens() of the messages from i to j.
Tokens(h, i, j) == MapThenSumSet(LAMBDA k : Weight[h[k].role], i..j)

\* The start of the current turn in what is left from `first` on.
LastUser(h, first) == Max({first} \union {i \in first..Len(h) : IsUser(h, i)})

\* Faulty variant: what is kept may start anywhere.
KeepNewestAnywhere(h, first, budget) ==
  LET last == LastUser(h, first)
  IN  Min({i \in first..Len(h) : i >= last \/ Tokens(h, i, Len(h)) <= budget})

\* The newest messages from `first` on that fit in `budget`: the current turn
\* is kept whatever its size, and the start moves on to a user message.
KeepNewest(h, first, budget) ==
  LET last == LastUser(h, first)
      fit == Min({i \in first..Len(h) : i >= last \/ Tokens(h, i, Len(h)) <= budget})
  IN  Min({i \in fit..Len(h) : i >= last \/ IsUser(h, i)})

\* What a summary of the first `upto` messages leaves over, from a user message on.
Recent(h, upto) ==
  IF upto >= Len(h) THEN Len(h) + 1
  ELSE Min({Len(h)} \union {i \in upto+1..Len(h) : IsUser(h, i)})

Fits(h, first) == Tokens(h, first, Len(h)) <= Budget

\* Where the part kept word for word starts after a compaction.
CutPoint(h, first) == KeepNewest(h, first, Keep)

\* windowHistory() with the engine's budget and no limit on the message count.
Trim(h, first) == IF Fits(h, first) THEN first ELSE KeepNewest(h, first, Budget)

\* Folding the messages before the cut into the summary is worth a model call.
WorthFolding(h, first) ==
  LET cut == CutPoint(h, first)
  IN  cut > first /\ 10 * Tokens(h, first, cut - 1) >= Budget

\* What is sent when nothing is folded in: all of it, or what fits if there is
\* nothing before the current turn.
Unfolded(h, first) ==
  IF first > Len(h) \/ Fits(h, first) \/ CutPoint(h, first) > first
  THEN first ELSE Trim(h, first)
=============================================================================
