------------------------------ MODULE AwayReplies ------------------------------
(***************************************************************************)
(* The away message of a WhatsApp number: someone who writes gets it once  *)
(* per repeat interval (src/channels/whatsapp_channel.ts maybeSendAway,    *)
(* src/service/whatsapp_bridge.ts awayReply and                            *)
(* src/repository/whatsapp_repository.ts).  One person writes several      *)
(* messages, which are handled side by side.                               *)
(***************************************************************************)
EXTENDS Naturals, FiniteSets

CONSTANTS
  AwayMessages,    \* messages the person writes
  MaxAwaySaves,    \* bounds of the model: times the owner saves the settings,
  MaxIntervals,    \* repeat intervals that pass
  MaxAwayFaults    \* sends that fail

ASSUME AwayAssumption == MaxAwaySaves \in Nat /\ MaxIntervals \in Nat /\ MaxAwayFaults \in Nat

VARIABLES
  away,          \* whatsapp_away: [enabled, ended]; ended once its end time has passed
  claim,         \* whatsapp_away_replies: "none", "recent" or "old"
  awayStep,      \* of each message: "new", "reads", "ended", "claims", "sends", "release", "done"
  awaySaves, awayIntervals, awayFaults,
  repliedSince   \* history: replies sent in this interval since the message was turned on

awayVars == <<away, claim, awayStep, awaySaves, awayIntervals, awayFaults, repliedSince>>

AwayInit ==
  /\ away = [enabled |-> FALSE, ended |-> FALSE] /\ claim = "none"
  /\ awayStep = [m \in AwayMessages |-> "new"]
  /\ awaySaves = 0 /\ awayIntervals = 0 /\ awayFaults = 0 /\ repliedSince = 0

Go(m, to) == awayStep' = [awayStep EXCEPT ![m] = to]
awayCounts == <<awaySaves, awayIntervals>>

\* PUT /away and saveAway(): turning it on starts afresh for everyone.
SaveAway(on) ==
  /\ awaySaves < MaxAwaySaves /\ awaySaves' = awaySaves + 1
  /\ away' = [enabled |-> on, ended |-> FALSE]
  /\ IF on /\ ~away.enabled THEN claim' = "none" /\ repliedSince' = 0 ELSE UNCHANGED <<claim, repliedSince>>
  /\ UNCHANGED <<awayStep, awayIntervals, awayFaults>>

\* handleUpsert() and maybeSendAway(): someone wrote, and the owner was not
\* active in that chat just before.
Written(m) ==
  /\ awayStep[m] = "new" /\ \E to \in {"reads", "done"} : Go(m, to)
  /\ UNCHANGED <<away, claim, awayCounts, awayFaults, repliedSince>>

\* awayReply(): getAway().
GetAway(m) ==
  /\ awayStep[m] = "reads"
  /\ Go(m, IF ~away.enabled THEN "done" ELSE IF away.ended THEN "ended" ELSE "claims")
  /\ UNCHANGED <<away, claim, awayCounts, awayFaults, repliedSince>>
DisableAway(m) ==
  /\ awayStep[m] = "ended" /\ Go(m, "done") /\ away' = [away EXCEPT !.enabled = FALSE]
  /\ UNCHANGED <<claim, awayCounts, awayFaults, repliedSince>>

\* Faulty variant, for mutation checks: the record is written when it is there too.
ClaimAnyway(m) ==
  /\ awayStep[m] = "claims" /\ Go(m, "sends") /\ claim' = "recent"
  /\ UNCHANGED <<away, awayCounts, awayFaults, repliedSince>>

\* claimAwayReply(): one statement finds an old record or none, and writes it.
ClaimAwayReply(m) ==
  /\ awayStep[m] = "claims"
  /\ IF claim = "recent" THEN Go(m, "done") /\ UNCHANGED claim ELSE Go(m, "sends") /\ claim' = "recent"
  /\ UNCHANGED <<away, awayCounts, awayFaults, repliedSince>>

\* The message is sent; a send that fails gives the claim back.
Send(m) ==
  /\ awayStep[m] = "sends"
  /\ \/ Go(m, "done") /\ repliedSince' = repliedSince + 1 /\ UNCHANGED awayFaults
     \/ /\ awayFaults < MaxAwayFaults /\ awayFaults' = awayFaults + 1 /\ Go(m, "release") /\ UNCHANGED repliedSince
  /\ UNCHANGED <<away, claim, awayCounts>>
ReleaseAwayReply(m) ==
  /\ awayStep[m] = "release" /\ Go(m, "done") /\ claim' = IF claim = "recent" THEN "none" ELSE claim
  /\ UNCHANGED <<away, awayCounts, awayFaults, repliedSince>>

\* Time: the repeat interval passes between replies; the end time comes.
IntervalPasses ==
  /\ claim = "recent" /\ awayIntervals < MaxIntervals /\ awayIntervals' = awayIntervals + 1
  /\ \A m \in AwayMessages : awayStep[m] \notin {"sends", "release"}
  /\ claim' = "old" /\ repliedSince' = 0
  /\ UNCHANGED <<away, awayStep, awaySaves, awayFaults>>
EndTimeComes ==
  /\ away.enabled /\ ~away.ended /\ away' = [away EXCEPT !.ended = TRUE]
  /\ UNCHANGED <<claim, awayStep, awayCounts, awayFaults, repliedSince>>

AwayNext ==
  \/ \E on \in BOOLEAN : SaveAway(on)
  \/ \E m \in AwayMessages : \/ Written(m) \/ GetAway(m) \/ DisableAway(m) \/ ClaimAwayReply(m) \/ Send(m)
                             \/ ReleaseAwayReply(m)
  \/ IntervalPasses \/ EndTimeComes

AwaySpec == AwayInit /\ [][AwayNext]_awayVars

-----------------------------------------------------------------------------
\* Messages written quickly one after another get one away message in an
\* interval.  (A reply that was on its way when the owner turned the message
\* off and on again, and one whose send failed, may be followed by another.)
OneAwayMessage == awayFaults = 0 /\ awaySaves <= 1 => repliedSince <= 1
=============================================================================
