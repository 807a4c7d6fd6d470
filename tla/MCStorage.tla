----------------------------- MODULE MCStorage ------------------------------
(***************************************************************************)
(* Web watchers, the schema's migrations, the knowledge base with its      *)
(* chunks and its search, and the bridge between messengers and chats for  *)
(* TLC, each on its own, in one run.                                       *)
(***************************************************************************)
EXTENDS Watchers, Migrating, KnowledgeBase, Chunking, Retrieval, ChatBridge

\* "p" is watched for any change, "q" for a condition that holds on version 2;
\* every check runs on the jobs server.
OneServer == [c \in Checks |-> "jobs"]

\* One chat is linked from the start, the other is not.
MCMadeFor == [s \in BridgeSessions |-> IF s = "s1" THEN "u1" ELSE "none"]
MCLinked == [c \in Chats |-> IF c = "c1" THEN [user |-> "u1", session |-> "s1"] ELSE NoLink]
MCMaxMessages == [c \in Chats |-> IF c = "c1" THEN 2 ELSE 1]

-----------------------------------------------------------------------------
CONSTANT Scenes  \* the components the run is about

VARIABLE scene   \* the one this behaviour is of

sceneVars == <<scene, vars, migratingVars, kbVars, chunkVars, searchVars, bridgeVars>>

\* The other components stay where they begin.
ScenesInit ==
  /\ scene \in Scenes
  /\ Init /\ MigratingInit /\ KbInit /\ ChunkInit /\ SearchInit /\ BridgeInit
  /\ (scene # "watchers" => target = "p" /\ page = [t \in Targets |-> 1])
  /\ (scene # "search" => table = [c \in KbChunks |-> [score |-> 0, hit |-> FALSE]])

ScenesNext ==
  \/ /\ scene = "watchers" /\ Next
     /\ UNCHANGED <<scene, migratingVars, kbVars, chunkVars, searchVars, bridgeVars>>
  \/ /\ scene = "migrating" /\ MigratingNext
     /\ UNCHANGED <<scene, vars, kbVars, chunkVars, searchVars, bridgeVars>>
  \/ /\ scene = "knowledge" /\ KbNext
     /\ UNCHANGED <<scene, vars, migratingVars, chunkVars, searchVars, bridgeVars>>
  \/ /\ scene = "chunking" /\ ChunkNext
     /\ UNCHANGED <<scene, vars, migratingVars, kbVars, searchVars, bridgeVars>>
  \/ /\ scene = "search" /\ Search
     /\ UNCHANGED <<scene, vars, migratingVars, kbVars, chunkVars, bridgeVars>>
  \/ /\ scene = "bridge" /\ BridgeNext
     /\ UNCHANGED <<scene, vars, migratingVars, kbVars, chunkVars, searchVars>>

ScenesSpec == ScenesInit /\ [][ScenesNext]_sceneVars

FairScenesSpec ==
  /\ ScenesSpec
  /\ Fairness
=============================================================================
