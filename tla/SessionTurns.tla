---------------------------- MODULE SessionTurns ----------------------------
(***************************************************************************)
(* What SessionLanes promises the runtime (the header of                   *)
(* src/core/runtime/session_lanes.ts): a turn asks for the session, is     *)
(* refused or queued, and at most one queued turn runs at a time.  Nothing *)
(* is said of how turns are ordered or locked.                             *)
(***************************************************************************)
CONSTANT Turns

VARIABLE phase

Init == phase = [t \in Turns |-> "outside"]

NobodyRuns == \A t \in Turns : phase[t] # "running"

Move(t, from, to) == phase[t] = from /\ phase' = [phase EXCEPT ![t] = to]

Ask(t) == Move(t, "outside", "queued")
Refuse(t) == Move(t, "outside", "gone")
Leave(t) == Move(t, "queued", "gone")
Start(t) == NobodyRuns /\ Move(t, "queued", "running")
End(t) == Move(t, "running", "gone")

\* A process dies: the turns it served are gone at once.
Lose(S) ==
  /\ \A t \in S : phase[t] \in {"queued", "running"}
  /\ phase' = [t \in Turns |-> IF t \in S THEN "gone" ELSE phase[t]]

Next ==
  \/ \E t \in Turns : Ask(t) \/ Refuse(t) \/ Leave(t) \/ Start(t) \/ End(t)
  \/ \E S \in SUBSET Turns : Lose(S)

Spec == Init /\ [][Next]_phase
=============================================================================
