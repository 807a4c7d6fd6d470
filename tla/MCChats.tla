------------------------------ MODULE MCChats -------------------------------
(***************************************************************************)
(* The lane of a session whose Redis holds, the loops over two services'   *)
(* answers, the chats that are stored, listed, pinned and searched, the    *)
(* studio's projects, subscriptions and the wallet of the model API, for   *)
(* TLC, each on its own, in one run.                                       *)
(***************************************************************************)
EXTENDS SessionLanes, ModelLoops, MCConversations, Studio, Subscriptions, Wallet

\* The user's own provider first, then a dearer one.
MCOffers == <<"own", "spare">>
MCPrice == [p \in {"own", "spare"} |-> IF p = "own" THEN 1 ELSE 2]

\* Nothing stored yet, or a turn that broke off between a call and its result.
MCPastStores == {<<>>, <<Msg("user", 0), Msg("assistant", -1), Msg("tool_call", -2)>>}

\* An export with everything, one with an agent alone, and one whose second
\* project is not valid.
MCFiles ==
  LET Project(valid, new, trigger) == [valid |-> valid, new |-> new, trigger |-> trigger] IN
  { [skill |-> TRUE, agent |-> TRUE, projects |-> <<Project(TRUE, 0, "chat")>>],
    [skill |-> FALSE, agent |-> TRUE, projects |-> <<>>],
    [skill |-> FALSE, agent |-> FALSE,
     projects |-> <<Project(TRUE, 1, "schedule"), Project(FALSE, 0, "manual")>>] }

-----------------------------------------------------------------------------
CONSTANT Scenes  \* the components the run is about

VARIABLE scene   \* the one this behaviour is of

sceneVars == <<scene, vars, loopVars, conversationVars, billingVars, studioVars, walletVars>>

\* The other components stay where they begin.
ScenesInit ==
  /\ scene \in Scenes
  /\ Init /\ LoopInit /\ ConversationsInit /\ BillingInit /\ StudioInit /\ WalletInit
  /\ (scene # "lane" => at = [t \in Turns |-> CHOOSE p \in Procs : TRUE])
  /\ (scene # "loops" => service = "openai" /\ messages = <<>>)
  /\ (scene # "chats" => \A c \in OldChats : ~chat[c].titled /\ (chat[c].rows # <<>> <=> \A d \in OldChats : c <= d))

ScenesNext ==
  \/ /\ scene = "lane" /\ Next
     /\ UNCHANGED <<scene, loopVars, conversationVars, billingVars, studioVars, walletVars>>
  \/ /\ scene = "loops" /\ LoopNext
     /\ UNCHANGED <<scene, vars, conversationVars, billingVars, studioVars, walletVars>>
  \/ /\ scene = "chats" /\ ConversationsNext
     /\ UNCHANGED <<scene, vars, loopVars, billingVars, studioVars, walletVars>>
  \/ /\ scene = "billing" /\ BillingNext
     /\ UNCHANGED <<scene, vars, loopVars, conversationVars, studioVars, walletVars>>
  \/ /\ scene = "studio" /\ StudioNext
     /\ UNCHANGED <<scene, vars, loopVars, conversationVars, billingVars, walletVars>>
  \/ /\ scene = "wallet" /\ WalletNext
     /\ UNCHANGED <<scene, vars, loopVars, conversationVars, billingVars, studioVars>>

ScenesSpec == ScenesInit /\ [][ScenesNext]_sceneVars
=============================================================================
