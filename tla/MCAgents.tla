------------------------------ MODULE MCAgents ------------------------------
(***************************************************************************)
(* The lane of a session whose Redis fails, the pipeline that reads stored *)
(* files, agents that live at their provider and the turns they take, and  *)
(* what comes and goes through the desktop app, the messengers and the     *)
(* processes that host them, for TLC, each on its own, in one run.         *)
(***************************************************************************)
EXTENDS SessionLanes, ReadPipeline, NativeAgents, NativeTurns, RemoteAnswers, WhatsAppHost, TelegramHost, ChannelCalls, AwayReplies



-----------------------------------------------------------------------------
CONSTANT Scenes  \* the components the run is about

VARIABLE scene   \* the one this behaviour is of

sceneVars == <<scene, vars, readVars, nativeVars, turnVars, answerVars, hostVars, telegramVars, channelCallVars, awayVars>>

\* The other components stay where they begin.
ScenesInit ==
  /\ scene \in Scenes
  /\ Init /\ ReadInit /\ NativeInit /\ TurnInit /\ AnswersInit /\ HostInit /\ TelegramInit /\ ChannelInit /\ AwayInit
  /\ (scene # "lane" => at = [t \in Turns |-> CHOOSE p \in Procs : TRUE])
  /\ (scene # "calls" => hosts = {})
  /\ (scene # "turns" => backend = "claude" /\ stream = <<>>)

ScenesNext ==
  \/ /\ scene = "lane" /\ Next
     /\ UNCHANGED <<scene, readVars, nativeVars, turnVars, answerVars, hostVars, telegramVars, channelCallVars, awayVars>>
  \/ /\ scene = "reading" /\ ReadNext
     /\ UNCHANGED <<scene, vars, nativeVars, turnVars, answerVars, hostVars, telegramVars, channelCallVars, awayVars>>
  \/ /\ scene = "natives" /\ NativeNext
     /\ UNCHANGED <<scene, vars, readVars, turnVars, answerVars, hostVars, telegramVars, channelCallVars, awayVars>>
  \/ /\ scene = "turns" /\ TurnNext
     /\ UNCHANGED <<scene, vars, readVars, nativeVars, answerVars, hostVars, telegramVars, channelCallVars, awayVars>>
  \/ /\ scene = "answers" /\ AnswersNext
     /\ UNCHANGED <<scene, vars, readVars, nativeVars, turnVars, hostVars, telegramVars, channelCallVars, awayVars>>
  \/ /\ scene = "whatsapp" /\ HostNext
     /\ UNCHANGED <<scene, vars, readVars, nativeVars, turnVars, answerVars, telegramVars, channelCallVars, awayVars>>
  \/ /\ scene = "telegram" /\ TelegramNext
     /\ UNCHANGED <<scene, vars, readVars, nativeVars, turnVars, answerVars, hostVars, channelCallVars, awayVars>>
  \/ /\ scene = "calls" /\ ChannelNext
     /\ UNCHANGED <<scene, vars, readVars, nativeVars, turnVars, answerVars, hostVars, telegramVars, awayVars>>
  \/ /\ scene = "away" /\ AwayNext
     /\ UNCHANGED <<scene, vars, readVars, nativeVars, turnVars, answerVars, hostVars, telegramVars, channelCallVars>>

ScenesSpec == ScenesInit /\ [][ScenesNext]_sceneVars

FairScenesSpec ==
  /\ ScenesSpec
  /\ Fairness
  /\ WF_readVars(scene = "reading" /\ ListPage) /\ WF_readVars(Close) /\ WF_readVars(Dequeue)
  /\ WF_readVars(EndOfStream) /\ WF_readVars(FlushBatch)
  /\ \A r \in ReadWorkers : WF_readVars(TakeFile(r) \/ ReadFile(r) \/ Push(r) \/ Wake(r))
  /\ WF_hostVars(scene = "whatsapp" /\ Poll) /\ WF_hostVars(ApplyPolled) /\ WF_hostVars(ApplyNow)
  /\ \A i \in All : WF_hostVars(CreateSocket(i)) /\ WF_hostVars(Reconnect(i))
=============================================================================
