----------------------------- MODULE RemoteProofs -----------------------------
(***************************************************************************)
(* Proofs about what this server keeps with others, for any number of      *)
(* chats, users, messages, agents, calls and faults: the messengers        *)
(* (AwayReplies, ChannelCalls, ChatBridge, TelegramHost), the questions a  *)
(* user answers from elsewhere (RemoteAnswers), the agents at a provider   *)
(* (NativeAgents) and a chat's turn with one (NativeTurns).                *)
(***************************************************************************)
EXTENDS AwayReplies, ChannelCalls, ChatBridge, TelegramHost, RemoteAnswers, NativeAgents, NativeTurns,
        SequenceFacts, TLAPS

-----------------------------------------------------------------------------
(***************************************************************************)
(* The away message.  A message that is about to be answered holds the     *)
(* claim, alone; once one was answered the claim is recent, and only the   *)
(* interval's end or the owner makes it anything else.                     *)
(***************************************************************************)
AwaySteps == {"new", "reads", "ended", "claims", "sends", "release", "done"}

AwayShape ==
  /\ away \in [enabled : BOOLEAN, ended : BOOLEAN]
  /\ claim \in {"none", "recent", "old"}
  /\ awayStep \in [AwayMessages -> AwaySteps]
  /\ awaySaves \in Nat /\ awayFaults \in Nat /\ repliedSince \in Nat

AwayInv ==
  /\ awaySaves = 0 =>
       /\ away.enabled = FALSE /\ away.ended = FALSE /\ claim = "none" /\ repliedSince = 0
       /\ \A m \in AwayMessages : awayStep[m] \in {"new", "reads", "done"}
  /\ awayFaults = 0 => \A m \in AwayMessages : awayStep[m] # "release"
  /\ awayFaults = 0 /\ awaySaves <= 1 =>
       /\ repliedSince <= 1
       /\ repliedSince = 1 => claim = "recent"
       /\ \A m \in AwayMessages : awayStep[m] = "sends" =>
            /\ claim = "recent" /\ repliedSince = 0
            /\ \A k \in AwayMessages : awayStep[k] = "sends" => k = m

\* Someone who writes several messages quickly gets one away message in an
\* interval, for any number of messages, intervals and saves.
THEOREM AwayMessageIsSentOnce == AwaySpec => []OneAwayMessage
<1>1. AwayInit => AwayShape /\ AwayInv
  BY DEF AwayInit, AwayShape, AwayInv, AwaySteps
<1>2. AwayShape /\ AwayInv /\ [AwayNext]_awayVars => AwayShape' /\ AwayInv'
  <2> SUFFICES ASSUME AwayShape, AwayInv, [AwayNext]_awayVars PROVE AwayShape' /\ AwayInv'
    OBVIOUS
  <2> USE DEF AwayShape, AwaySteps, AwayInv, awayCounts, Go
  <2>1. ASSUME NEW on \in BOOLEAN, SaveAway(on) PROVE AwayShape' /\ AwayInv'
    BY <2>1 DEF SaveAway
  <2>2. ASSUME NEW m \in AwayMessages, Written(m) PROVE AwayShape' /\ AwayInv'
    BY <2>2 DEF Written
  <2>3. ASSUME NEW m \in AwayMessages, GetAway(m) PROVE AwayShape' /\ AwayInv'
    BY <2>3 DEF GetAway
  <2>4. ASSUME NEW m \in AwayMessages, DisableAway(m) PROVE AwayShape' /\ AwayInv'
    BY <2>4 DEF DisableAway
  <2>5. ASSUME NEW m \in AwayMessages, ClaimAwayReply(m) PROVE AwayShape' /\ AwayInv'
    BY <2>5 DEF ClaimAwayReply
  <2>6. ASSUME NEW m \in AwayMessages, Send(m) PROVE AwayShape' /\ AwayInv'
    BY <2>6 DEF Send
  <2>7. ASSUME NEW m \in AwayMessages, ReleaseAwayReply(m) PROVE AwayShape' /\ AwayInv'
    BY <2>7 DEF ReleaseAwayReply
  <2>8. CASE IntervalPasses
    BY <2>8 DEF IntervalPasses
  <2>9. CASE EndTimeComes
    BY <2>9 DEF EndTimeComes
  <2>10. CASE UNCHANGED awayVars
    BY <2>10 DEF awayVars
  <2>11. QED
    BY <2>1, <2>2, <2>3, <2>4, <2>5, <2>6, <2>7, <2>8, <2>9, <2>10 DEF AwayNext
<1>3. AwayInv => OneAwayMessage
  BY DEF AwayInv, OneAwayMessage
<1>4. QED
  BY <1>1, <1>2, <1>3, PTL DEF AwaySpec

-----------------------------------------------------------------------------
(***************************************************************************)
(* Calls to the hosting process.  A call is made once, so it is on its way,*)
(* worked on or over; what is known of it agrees with whether its message  *)
(* was sent; and the second app is not asked before the first has failed.  *)
(***************************************************************************)
CallResults == {"true", "false", "error"}

CallShape ==
  /\ notice \in [Notices -> Apps \union {"new", "told", "untold"}]
  /\ results \in [CallIds -> CallResults \union {"none"}]
  /\ pending \subseteq CallIds /\ requests \subseteq CallIds
  /\ working \subseteq CallIds /\ sends \subseteq CallIds
  /\ replies \subseteq [call : CallIds, result : CallResults]

\* The call was not made yet.
Unasked(c) ==
  /\ c \notin pending /\ c \notin requests /\ c \notin working /\ c \notin sends
  /\ results[c] = "none" /\ \A m \in replies : m.call # c

CallInv ==
  /\ \A c \in CallIds : c \in requests => c \notin working
  /\ \A c \in sends : c \notin requests /\ c \notin working
  /\ \A m \in replies :
       /\ m.call \notin requests /\ m.call \notin working
       /\ m.result = "true" => m.call \in sends
       /\ m.result = "false" => m.call \notin sends
  /\ \A c \in CallIds :
       /\ c \in pending => results[c] = "none"
       /\ results[c] = "true" => c \in sends
       /\ results[c] = "false" => c \notin requests /\ c \notin working /\ c \notin sends
  /\ \A n \in Notices :
       /\ notice[n] = "new" => Unasked(<<n, "whatsapp">>) /\ Unasked(<<n, "telegram">>)
       /\ notice[n] = "whatsapp" => Unasked(<<n, "telegram">>)
       /\ results[<<n, "whatsapp">>] \notin {"false", "error"} => Unasked(<<n, "telegram">>)
       /\ notice[n] = "told" => \E a \in Apps : <<n, a>> \in sends

\* A user counts as told only when a message was sent, and is told twice only
\* after a call that got no answer in time, for any number of notices and faults.
THEOREM CallsAreAnsweredOnce == ChannelSpec => []CallsAreAnswered
<1>1. ChannelInit => CallShape /\ CallInv
  BY DEF ChannelInit, CallShape, CallInv, Unasked, CallIds, Apps, CallResults
<1>2. CallShape /\ CallInv /\ [ChannelNext]_channelCallVars => CallShape' /\ CallInv'
  <2> SUFFICES ASSUME CallShape, CallInv, [ChannelNext]_channelCallVars PROVE CallShape' /\ CallInv'
    OBVIOUS
  <2> USE DEF CallShape, CallInv, Unasked, CallIds, Apps, CallResults, Command, Settle, ChannelFault
  <2>1. ASSUME NEW n \in Notices, NotifyUser(n) PROVE CallShape' /\ CallInv'
    BY <2>1 DEF NotifyUser
  <2>2. ASSUME NEW n \in Notices, NextApp(n) PROVE CallShape' /\ CallInv'
    BY <2>2 DEF NextApp
  <2>3. ASSUME NEW n \in Notices, CallTold(n) PROVE CallShape' /\ CallInv'
    BY <2>3 DEF CallTold
  <2>4. ASSUME NEW c \in CallIds, PublishRequestFails(c) PROVE CallShape' /\ CallInv'
    BY <2>4 DEF PublishRequestFails
  <2>5. ASSUME NEW c \in CallIds, TimesOut(c) PROVE CallShape' /\ CallInv'
    BY <2>5 DEF TimesOut
  <2>6. ASSUME NEW c \in CallIds, TakeRequest(c) PROVE CallShape' /\ CallInv'
    BY <2>6 DEF TakeRequest
  <2>7. ASSUME NEW c \in CallIds, RunCall(c) PROVE CallShape' /\ CallInv'
    BY <2>7 DEF RunCall
  <2>8. ASSUME NEW m \in replies, TakeReply(m) PROVE CallShape' /\ CallInv'
    BY <2>8 DEF TakeReply
  <2>9. ASSUME NEW m \in replies, LoseReply(m) PROVE CallShape' /\ CallInv'
    BY <2>9 DEF LoseReply
  <2>10. CASE StopHub
    BY <2>10 DEF StopHub
  <2>11. CASE HostDies
    BY <2>11 DEF HostDies
  <2>12. CASE HostStarts \/ PublishSnapshots \/ (\E a \in Apps : SnapshotExpires(a)) \/ UNCHANGED channelCallVars
    BY <2>12 DEF HostStarts, PublishSnapshots, SnapshotExpires, channelCallVars
  <2>13. QED
    BY <2>1, <2>2, <2>3, <2>4, <2>5, <2>6, <2>7, <2>8, <2>9, <2>10, <2>11, <2>12 DEF ChannelNext
<1>3. CallShape /\ CallInv => CallsAreAnswered
  BY DEF CallShape, CallInv, CallsAreAnswered, CallIds, Apps, Unasked, CallResults
<1>4. QED
  BY <1>1, <1>2, <1>3, PTL DEF ChannelSpec

-----------------------------------------------------------------------------
(***************************************************************************)
(* The bridge.  What a message in hand was told of its chat's link stays   *)
(* true of the codes sent there, whatever becomes of the link; a session   *)
(* that was made or checked for a user stays theirs or goes; and a code    *)
(* that was taken is used up.                                              *)
(***************************************************************************)
Places == {"rest", "code", "existing", "relink", "link", "ensure", "create", "activate", "unlink", "turn"}
AnyUser == Users \union {"nobody"}
AnySession == BridgeSessions \union {"none"}
Message ==
  {m \in [no : Chats \X Nat, kind : Kinds \union {"code"}, code : 0..NumCodes] : m.kind = "code" => m.code \in Codes}

InHand ==
  {h \in [at : Places, kind : Kinds \union {"code", "none"}, code : 0..NumCodes, user : AnyUser, session : AnySession] :
     h.at = "code" => h.code \in Codes}
Links == [user : AnyUser, session : AnySession]
CodeRows == [state : {"none", "fresh", "used", "retired"}, user : AnyUser, session : AnySession]
WebRequests == [at : {"rest", "switch"}, user : AnyUser, session : AnySession, chat : Chats \union {"none"}]

BridgeShape ==
  /\ owner \in [BridgeSessions -> AnyUser \union {"none", "gone"}]
  /\ link \in [Chats -> Links]
  /\ code \in [Codes -> CodeRows]
  /\ chatInbox \in [Chats -> Seq(Message)] /\ seenIds \subseteq Chats \X Nat
  /\ sent \in [Chats -> Nat] /\ handled \in [Chats -> Nat]
  /\ handling \in [Chats -> InHand]
  /\ web \in WebRequests /\ (web.at = "switch" => web.chat \in Chats)
  /\ linkings \subseteq (0..NumCodes) \X Chats \X AnyUser

\* What a message in hand may become.
LEMMA RestingInHand == Resting \in InHand
BY BridgeAssumption DEF InHand, Resting, Places, AnyUser, AnySession

\* A message in hand goes on to another await.
LEMMA Moved ==
  ASSUME NEW h \in InHand, NEW at \in Places \ {"code"}
  PROVE  [h EXCEPT !.at = at] \in InHand
BY DEF InHand

\* It goes on with a session.
LEMMA MovedWithSession ==
  ASSUME NEW h \in InHand, NEW at \in Places \ {"code"}, NEW s \in AnySession
  PROVE  [h EXCEPT !.session = s, !.at = at] \in InHand
BY DEF InHand

\* It goes on with what its chat is linked to.
LEMMA MovedWithLink ==
  ASSUME NEW h \in InHand, NEW at \in Places \ {"code"}, NEW u \in AnyUser, NEW s \in AnySession
  PROVE  /\ [h EXCEPT !.at = at, !.user = u, !.session = s] \in InHand
         /\ [h EXCEPT !.user = u, !.session = s, !.at = at] \in InHand
BY DEF InHand

\* A message is taken in hand.
LEMMA TakenInHand ==
  ASSUME NEW m \in Message
  PROVE  [Resting EXCEPT !.kind = m.kind, !.code = m.code,
                         !.at = IF m.kind = "code" THEN "code" ELSE "link"] \in InHand
BY DEF InHand, Resting, Message, Places, AnyUser, AnySession

\* What a link may become.
LEMMA NoLinkIsLink == NoLink \in Links
BY DEF Links, NoLink, AnyUser, AnySession

\* A chat is linked to another session.
LEMMA LinkSwitched ==
  ASSUME NEW l \in Links, NEW s \in AnySession
  PROVE  [l EXCEPT !.session = s] \in Links /\ [l EXCEPT !.session = s].user = l.user
BY DEF Links

\* What joins a queue, or leaves it, is a message.
LEMMA QueueChanges ==
  ASSUME NEW q \in Seq(Message)
  PROVE  /\ \A m \in Message : Append(q, m) \in Seq(Message)
         /\ q # <<>> => Head(q) \in Message /\ Tail(q) \in Seq(Message)
OBVIOUS

\* The shape of links, codes, queues and messages in hand is kept by every
\* step.
THEOREM BridgeTypeCorrect == BridgeSpec => []BridgeShape
<1>1. BridgeInit => BridgeShape
  <2> SUFFICES ASSUME BridgeInit PROVE BridgeShape
    OBVIOUS
  <2>1. link \in [Chats -> Links]
    BY BridgeAssumption DEF BridgeInit, Links, AnyUser, AnySession
  <2>2. code \in [Codes -> CodeRows] /\ web \in WebRequests /\ web.at # "switch"
    BY DEF BridgeInit, NoCode, CodeRows, NoWeb, WebRequests, AnyUser, AnySession
  <2>3. linkings \subseteq (0..NumCodes) \X Chats \X AnyUser
    BY <2>1, BridgeAssumption DEF BridgeInit, Links
  <2>4. chatInbox \in [Chats -> Seq(Message)]
    BY DEF BridgeInit
  <2>5. owner \in [BridgeSessions -> AnyUser \union {"none", "gone"}]
    BY BridgeAssumption DEF BridgeInit, AnyUser
  <2>6. /\ seenIds \subseteq Chats \X Nat /\ sent \in [Chats -> Nat] /\ handled \in [Chats -> Nat]
        /\ handling \in [Chats -> InHand]
    BY RestingInHand DEF BridgeInit
  <2>7. QED
    BY <2>1, <2>2, <2>3, <2>4, <2>5, <2>6 DEF BridgeShape
<1>2. BridgeShape /\ [BridgeNext]_bridgeVars => BridgeShape'
  <2> SUFFICES ASSUME BridgeShape, [BridgeNext]_bridgeVars PROVE BridgeShape'
    OBVIOUS
  <2>1. ASSUME NEW c \in Chats, NEW m, m \in Message, m.no \in Chats \X Nat, Enqueue(c, m)
        PROVE  chatInbox' \in [Chats -> Seq(Message)] /\ seenIds' \subseteq Chats \X Nat
    <3>1. chatInbox \in [Chats -> Seq(Message)] /\ seenIds \subseteq Chats \X Nat
      BY DEF BridgeShape
    <3>2. Append(chatInbox[c], m) \in Seq(Message)
      BY <2>1, <3>1, QueueChanges
    <3>3. QED
      BY <2>1, <3>1, <3>2 DEF Enqueue
  <2>2. ASSUME NEW c \in Chats, NEW kind \in Kinds \union {"code"}, NEW k \in 0..NumCodes,
               kind = "code" => k \in Codes, Arrive(c, kind, k)
        PROVE  BridgeShape'
    <3> DEFINE m == [no |-> <<c, sent[c] + 1>>, kind |-> kind, code |-> k]
    <3>1. sent[c] + 1 \in Nat /\ sent' \in [Chats -> Nat]
      BY <2>2 DEF BridgeShape, Arrive
    <3>2. m \in Message /\ m.no \in Chats \X Nat
      BY <2>2, <3>1 DEF Message
    <3>3. Enqueue(c, m)
      BY <2>2 DEF Arrive
    <3>4. chatInbox' \in [Chats -> Seq(Message)] /\ seenIds' \subseteq Chats \X Nat
      BY <2>1, <3>2, <3>3
    <3>5. QED
      BY <2>2, <3>1, <3>4 DEF Arrive, BridgeShape
  <2>3. ASSUME NEW c \in Chats, Redeliver(c) PROVE BridgeShape'
    <3> DEFINE m == [no |-> <<c, handled[c]>>, kind |-> "text", code |-> 0]
    <3>1. handled[c] \in Nat /\ 0 \in 0..NumCodes /\ "text" \in Kinds
      BY BridgeAssumption DEF BridgeShape, Kinds
    <3>2. m \in Message /\ m.no \in Chats \X Nat
      BY <3>1 DEF Message
    <3>3. Enqueue(c, m)
      BY <2>3 DEF Redeliver
    <3>4. chatInbox' \in [Chats -> Seq(Message)] /\ seenIds' \subseteq Chats \X Nat
      BY <2>1, <3>2, <3>3
    <3>5. QED
      BY <2>3, <3>4 DEF Redeliver, BridgeShape
  <2>4. ASSUME NEW c \in Chats, Handle(c) PROVE BridgeShape'
    <3> DEFINE m == Head(chatInbox[c])
    <3>1. chatInbox[c] \in Seq(Message) /\ chatInbox[c] # <<>>
      BY <2>4 DEF BridgeShape, Handle
    <3>2. m \in Message /\ Tail(chatInbox[c]) \in Seq(Message)
      BY <3>1, QueueChanges
    <3>3. m.no[2] \in Nat
      BY <3>2 DEF Message
    <3>4. chatInbox' \in [Chats -> Seq(Message)] /\ handled' \in [Chats -> Nat]
      BY <2>4, <3>2, <3>3 DEF Handle, BridgeShape
    <3>5. handling' \in [Chats -> InHand]
      BY <2>4, <3>2, TakenInHand DEF Handle, BridgeShape
    <3>6. QED
      BY <2>4, <3>4, <3>5 DEF Handle, BridgeShape
  <2>5. ASSUME NEW c \in Chats, CheckCode(c) PROVE BridgeShape'
    <3> DEFINE k == handling[c].code
    <3>1. handling[c] \in InHand /\ k \in Codes
      BY <2>5 DEF BridgeShape, CheckCode, InHand
    <3>2. CASE code[k].state = "fresh"
      <4>1. /\ code[k].user \in AnyUser /\ code[k].session \in AnySession /\ k \in 0..NumCodes
            /\ [code[k] EXCEPT !.state = "used"] \in CodeRows
        <5>1. code[k] \in CodeRows
          BY <3>1 DEF BridgeShape
        <5>2. k \in 0..NumCodes
          BY <3>1, BridgeAssumption DEF Codes
        <5>3. QED
          BY <5>1, <5>2 DEF CodeRows
      <4>2. code' \in [Codes -> CodeRows]
        BY <2>5, <3>2, <4>1 DEF CheckCode, ConsumeCode, BridgeShape
      <4>3. handling' \in [Chats -> InHand]
        <5>1. [handling[c] EXCEPT !.at = "existing", !.user = code[k].user, !.session = code[k].session] \in InHand
          BY <3>1, <4>1, MovedWithLink DEF Places
        <5>2. QED
          BY <2>5, <3>2, <5>1 DEF CheckCode, BridgeShape
      <4>4. linkings' \subseteq (0..NumCodes) \X Chats \X AnyUser
        <5>1. <<k, c, code[k].user>> \in (0..NumCodes) \X Chats \X AnyUser
          BY <4>1
        <5>2. linkings' = linkings \union {<<k, c, code[k].user>>}
          BY <2>5, <3>2 DEF CheckCode
        <5>3. QED
          BY <5>1, <5>2 DEF BridgeShape
      <4>5. QED
        BY <2>5, <4>2, <4>3, <4>4 DEF CheckCode, BridgeShape, Unchanged
    <3>3. CASE code[k].state # "fresh"
      BY <2>5, <3>3, RestingInHand DEF CheckCode, BridgeShape, Rest, Unchanged
    <3>4. QED
      BY <3>2, <3>3
  <2>6. ASSUME NEW c \in Chats, FindExisting(c) \/ EnsureSession(c) \/ AskModel(c) PROVE BridgeShape'
    <3>1. \A at \in {"relink", "activate", "turn", "create"} : [handling[c] EXCEPT !.at = at] \in InHand
      BY Moved DEF BridgeShape, Places
    <3>2. handling' \in [Chats -> InHand]
      BY <2>6, <3>1, RestingInHand DEF FindExisting, EnsureSession, AskModel, Place, Rest, BridgeShape
    <3>3. QED
      BY <2>6, <3>2 DEF FindExisting, EnsureSession, AskModel, Unchanged, BridgeShape
  <2>7. ASSUME NEW c \in Chats, Relink(c) PROVE BridgeShape'
    <3>1. handling[c].user \in AnyUser /\ handling[c].session \in AnySession
      BY DEF BridgeShape, InHand
    <3>2. link' \in [Chats -> Links]
      BY <2>7, <3>1, NoLinkIsLink DEF Relink, LinkChat, Links, BridgeShape
    <3>3. QED
      BY <2>7, <3>2, RestingInHand DEF Relink, Rest, Unchanged, BridgeShape
  <2>8. ASSUME NEW c \in Chats, ReadLink(c) PROVE BridgeShape'
    <3>1. link[c].user \in AnyUser /\ link[c].session \in AnySession
      BY DEF BridgeShape, Links
    <3>2. \A at \in {"ensure", "create", "unlink"} :
            [handling[c] EXCEPT !.user = link[c].user, !.session = link[c].session, !.at = at] \in InHand
      BY <3>1, MovedWithLink DEF BridgeShape, Places
    <3>3. handling' \in [Chats -> InHand]
      BY <2>8, <3>2, RestingInHand DEF ReadLink, Rest, BridgeShape
    <3>4. QED
      BY <2>8, <3>3 DEF ReadLink, Unchanged, BridgeShape
  <2>9. ASSUME NEW c \in Chats, CreateSession(c) PROVE BridgeShape'
    <3>1. PICK s \in BridgeSessions :
            /\ owner' = [owner EXCEPT ![s] = handling[c].user]
            /\ handling' = [handling EXCEPT ![c] = [@ EXCEPT !.session = s, !.at = "activate"]]
      BY <2>9 DEF CreateSession
    <3>2. [handling[c] EXCEPT !.session = s, !.at = "activate"] \in InHand
      BY MovedWithSession DEF BridgeShape, Places, AnySession
    <3>3. handling' \in [Chats -> InHand]
      BY <3>1, <3>2 DEF BridgeShape
    <3>4. owner' \in [BridgeSessions -> AnyUser \union {"none", "gone"}]
      BY <3>1 DEF BridgeShape, InHand
    <3>5. QED
      BY <2>9, <3>3, <3>4 DEF CreateSession, Unchanged, BridgeShape
  <2>10. ASSUME NEW c \in Chats, NEW s \in AnySession, SetActiveSession(c, s)
         PROVE  link' \in [Chats -> Links]
    BY <2>10, LinkSwitched DEF SetActiveSession, BridgeShape
  <2>11. ASSUME NEW c \in Chats, Activate(c) PROVE BridgeShape'
    <3>1. link' \in [Chats -> Links]
      BY <2>10, <2>11 DEF Activate, BridgeShape, InHand
    <3>2. [handling[c] EXCEPT !.at = "turn"] \in InHand
      BY Moved DEF BridgeShape, Places
    <3>3. handling' \in [Chats -> InHand]
      BY <2>11, <3>2, RestingInHand DEF Activate, Place, Rest, BridgeShape
    <3>4. QED
      BY <2>11, <3>1, <3>3 DEF Activate, Unchanged, BridgeShape
  <2>12. ASSUME NEW c \in Chats, UnlinkChat(c) PROVE BridgeShape'
    BY <2>12, RestingInHand, NoLinkIsLink DEF UnlinkChat, Rest, Unchanged, BridgeShape
  <2>13. ASSUME NEW c \in Chats, HandleFails(c) PROVE BridgeShape'
    BY <2>13, RestingInHand DEF HandleFails, Rest, Unchanged, BridgeShape
  <2>14. ASSUME NEW u \in Users, UnlinkUser(u) PROVE BridgeShape'
    BY <2>14, NoLinkIsLink DEF UnlinkUser, WebOnly, BridgeShape
  <2>15. ASSUME NEW u \in Users, NEW s \in BridgeSessions, ContinueSession(u, s) PROVE BridgeShape'
    <3>1. web' \in WebRequests /\ (web'.at = "switch" => web'.chat \in Chats)
      BY <2>15 DEF ContinueSession, WebRequests, AnyUser, AnySession
    <3>2. QED
      BY <2>15, <3>1 DEF ContinueSession, WebOnly, BridgeShape
  <2>16. ASSUME NEW u \in Users, NEW k \in Codes, NEW s \in AnySession, CreateCode(u, k, s) PROVE BridgeShape'
    <3>1. \A j \in Codes : code[j] \in CodeRows /\ [code[j] EXCEPT !.state = "retired"] \in CodeRows
      BY DEF BridgeShape, CodeRows
    <3>2. [state |-> "fresh", user |-> u, session |-> s] \in CodeRows
      BY DEF CodeRows, AnyUser
    <3>3. code' \in [Codes -> CodeRows]
      BY <2>16, <3>1, <3>2 DEF CreateCode
    <3>4. QED
      BY <2>16, <3>3 DEF CreateCode, WebOnly, BridgeShape
  <2>17. ASSUME NEW s \in BridgeSessions, DeleteWebChat(s) PROVE BridgeShape'
    <3>1. \A j \in Codes : code[j] \in CodeRows /\ [code[j] EXCEPT !.state = "retired"] \in CodeRows
      BY DEF BridgeShape, CodeRows
    <3>2. \A c \in Chats : link[c] \in Links /\ [link[c] EXCEPT !.session = "none"] \in Links
      BY LinkSwitched DEF BridgeShape, AnySession
    <3>3. code' \in [Codes -> CodeRows] /\ link' \in [Chats -> Links]
      BY <2>17, <3>1, <3>2 DEF DeleteWebChat
    <3>4. QED
      BY <2>17, <3>3 DEF DeleteWebChat, WebOnly, BridgeShape
  <2>18. CASE SwitchSession
    <3>1. link' \in [Chats -> Links]
      BY <2>10, <2>18 DEF SwitchSession, BridgeShape, WebRequests
    <3>2. web' \in WebRequests /\ web'.at # "switch"
      BY <2>18 DEF SwitchSession, NoWeb, WebRequests, AnyUser, AnySession
    <3>3. QED
      BY <2>18, <3>1, <3>2 DEF SwitchSession, WebOnly, BridgeShape
  <2>19. CASE BridgeDies
    <3>1. chatInbox' \in [Chats -> Seq(Message)] /\ handling' \in [Chats -> InHand] /\ handled' \in [Chats -> Nat]
      BY <2>19, RestingInHand DEF BridgeDies
    <3>2. QED
      BY <2>19, <3>1 DEF BridgeDies, BridgeShape
  <2>20. CASE UNCHANGED bridgeVars
    BY <2>20 DEF bridgeVars, BridgeShape
  <2>21. 0 \in 0..NumCodes /\ Codes \subseteq 0..NumCodes /\ "code" \notin Kinds
    BY BridgeAssumption DEF Codes, Kinds
  <2>22. QED
    BY <2>2, <2>3, <2>4, <2>5, <2>6, <2>7, <2>8, <2>9, <2>11, <2>12, <2>13, <2>14, <2>15, <2>16, <2>17, <2>18, <2>19,
       <2>20, <2>21
    DEF BridgeNext, AnySession
<1>3. QED
  BY <1>1, <1>2, PTL DEF BridgeSpec

-----------------------------------------------------------------------------
\* A code of the user was sent in the chat.
EntitledIn(c, u) == u \in Users /\ \E l \in linkings : l[2] = c /\ l[3] = u

LinkInv ==
  /\ \A c \in Chats : link[c] # NoLink => EntitledIn(c, link[c].user)
  /\ \A c \in Chats, d \in Chats : link[c].user = link[d].user /\ link[c] # NoLink => c = d

CodeInv ==
  /\ \A k \in Codes : code[k].state = "fresh" => code[k].user \in Users
  /\ \A l \in linkings : l[1] # 0 => l[1] \in Codes /\ code[l[1]].state = "used"
  /\ \A l \in linkings, m \in linkings : l[1] = m[1] /\ l[1] # 0 => l = m

HandInv(c) ==
  /\ handling[c].at \notin {"rest", "code", "link"} => EntitledIn(c, handling[c].user)
  /\ handling[c].at \in {"code", "existing", "relink"} => handling[c].kind = "code"
  /\ handling[c].at = "turn" \/ (handling[c].at = "activate" /\ handling[c].kind = "text") =>
       handling[c].session \in BridgeSessions /\ owner[handling[c].session] \in {handling[c].user, "gone"}

OwnerInv == LinkInv /\ CodeInv /\ \A c \in Chats : HandInv(c)

\* Links that only go, or change their session, stay entitled and apart.
LEMMA LinksKept ==
  ASSUME LinkInv, linkings \subseteq linkings',
         \A d \in Chats : link'[d] = NoLink \/ (link[d] # NoLink /\ link'[d].user = link[d].user)
  PROVE  LinkInv'
<1>1. \A d \in Chats : link'[d] # NoLink => link[d] # NoLink /\ link'[d].user = link[d].user /\ link[d].user \in Users
  BY DEF LinkInv, EntitledIn
<1>2. \A d \in Chats : link'[d].user \in Users => link'[d] # NoLink
  BY BridgeAssumption DEF NoLink
<1>3. (\A c \in Chats : link[c] # NoLink => EntitledIn(c, link[c].user))'
  BY <1>1 DEF LinkInv, EntitledIn
<1>4. (\A c \in Chats, d \in Chats : link[c].user = link[d].user /\ link[c] # NoLink => c = d)'
  BY <1>1, <1>2 DEF LinkInv
<1>5. QED
  BY <1>3, <1>4 DEF LinkInv

\* setActiveSession() leaves every link with its user.
LEMMA ActiveSessionKeepsLinks ==
  ASSUME BridgeShape, LinkInv, NEW c \in Chats, NEW s \in AnySession, SetActiveSession(c, s), UNCHANGED linkings
  PROVE  LinkInv'
<1>1. \A d \in Chats : link'[d] = NoLink \/ (link[d] # NoLink /\ link'[d].user = link[d].user)
  BY LinkSwitched DEF SetActiveSession, BridgeShape
<1>2. QED
  BY <1>1, LinksKept

\* What the fields of a message in hand become.
LEMMA FieldsMoved ==
  ASSUME NEW h \in InHand, NEW at, NEW u, NEW s
  PROVE  /\ LET m == [h EXCEPT !.at = at] IN m.at = at /\ m.kind = h.kind /\ m.user = h.user /\ m.session = h.session
         /\ LET m == [h EXCEPT !.session = s, !.at = at] IN m.at = at /\ m.kind = h.kind /\ m.user = h.user /\ m.session = s
         /\ LET m == [h EXCEPT !.user = u, !.session = s, !.at = at] IN
              m.at = at /\ m.kind = h.kind /\ m.user = u /\ m.session = s
         /\ LET m == [h EXCEPT !.at = at, !.user = u, !.session = s] IN
              m.at = at /\ m.kind = h.kind /\ m.user = u /\ m.session = s
BY DEF InHand

\* A message in hand keeps what it has learnt while sessions are made or go.
LEMMA HandsKept ==
  ASSUME \A c \in Chats : HandInv(c), linkings \subseteq linkings',
         \A s \in BridgeSessions : owner'[s] \in {owner[s], "gone"} \/ owner[s] = "none",
         \A c \in Chats : handling'[c] \in {handling[c], Resting} \/ HandInv(c)'
  PROVE  (\A c \in Chats : HandInv(c))'
<1> SUFFICES ASSUME NEW c \in Chats PROVE HandInv(c)'
  OBVIOUS
<1>1. CASE handling'[c] = Resting
  BY <1>1 DEF HandInv, Resting
<1>2. CASE handling'[c] = handling[c]
  <2>1. HandInv(c)
    OBVIOUS
  <2>2. \A u : EntitledIn(c, u) => EntitledIn(c, u)'
    BY DEF EntitledIn
  <2>3. handling[c].at \notin {"rest", "code", "link"} => EntitledIn(c, handling[c].user) /\ handling[c].user # "none"
    BY <2>1, BridgeAssumption DEF HandInv, EntitledIn
  <2>4. QED
    BY <1>2, <2>1, <2>2, <2>3 DEF HandInv
<1>3. QED
  BY <1>1, <1>2

\* A step that takes no code keeps what is known of codes, if none is made fresh
\* for nobody and none that is used changes.
LEMMA CodesKept ==
  ASSUME CodeInv, UNCHANGED linkings,
         \A k \in Codes : /\ code'[k].state = "fresh" => code'[k].user \in Users
                          /\ code[k].state = "used" => code'[k].state = "used"
  PROVE  CodeInv'
BY DEF CodeInv

\* Turns run for the owner of a session alone, in a chat where a code of theirs
\* was sent, whatever the web app and other chats do meanwhile, for any number
\* of chats, users, sessions, codes, messages and faults.
THEOREM BridgeAnswersTheOwner == BridgeSpec => []AnswersStayWithTheOwner
<1>1. BridgeInit => OwnerInv
  <2> SUFFICES ASSUME BridgeInit PROVE OwnerInv
    OBVIOUS
  <2>1. \A c \in Chats : link[c] # NoLink => link[c].user \in Users
    BY BridgeAssumption DEF BridgeInit, NoLink
  <2>2. \A c \in Chats : link[c] # NoLink => EntitledIn(c, link[c].user)
    <3> SUFFICES ASSUME NEW c \in Chats, link[c] # NoLink PROVE EntitledIn(c, link[c].user)
      OBVIOUS
    <3> DEFINE l == <<0, c, link[c].user>>
    <3>1. l \in linkings /\ l[2] = c /\ l[3] = link[c].user
      BY DEF BridgeInit
    <3>2. QED
      BY <2>1, <3>1 DEF EntitledIn
  <2>3. LinkInv
    BY <2>1, <2>2, BridgeAssumption DEF BridgeInit, LinkInv
  <2>4. CodeInv
    BY DEF BridgeInit, CodeInv, NoCode
  <2>5. \A c \in Chats : HandInv(c)
    BY DEF BridgeInit, HandInv, Resting
  <2>6. QED
    BY <2>3, <2>4, <2>5 DEF OwnerInv
<1>2. BridgeShape /\ OwnerInv /\ [BridgeNext]_bridgeVars => OwnerInv'
  <2> SUFFICES ASSUME BridgeShape, OwnerInv, [BridgeNext]_bridgeVars PROVE OwnerInv'
    OBVIOUS
  <2>1. ASSUME UNCHANGED <<link, linkings>> PROVE LinkInv'
    BY <2>1 DEF OwnerInv, LinkInv, EntitledIn
  <2>2. ASSUME UNCHANGED <<code, linkings>> PROVE CodeInv'
    BY <2>2 DEF OwnerInv, CodeInv
  <2>3. ASSUME UNCHANGED <<owner, linkings>>,
               \A c \in Chats : handling'[c] \in {handling[c], Resting} \/ HandInv(c)'
        PROVE  (\A c \in Chats : HandInv(c))'
    BY <2>3, HandsKept DEF OwnerInv
  <2>4. ASSUME NEW c \in Chats, NEW kind, NEW k, Arrive(c, kind, k) \/ Redeliver(c) PROVE OwnerInv'
    BY <2>1, <2>2, <2>3, <2>4 DEF Arrive, Redeliver, OwnerInv
  <2>5. ASSUME NEW c \in Chats, Handle(c) PROVE OwnerInv'
    <3>1. HandInv(c)'
      BY <2>5 DEF Handle, HandInv, Resting, BridgeShape
    <3>2. \A d \in Chats : d # c => handling'[d] = handling[d]
      BY <2>5 DEF Handle, BridgeShape
    <3>3. QED
      BY <2>1, <2>2, <2>3, <2>5, <3>1, <3>2 DEF Handle, OwnerInv
  <2>6. ASSUME NEW c \in Chats, CheckCode(c) PROVE OwnerInv'
    <3> DEFINE k == handling[c].code
    <3>1. handling[c] \in InHand /\ k \in Codes /\ k # 0
      BY <2>6, BridgeAssumption DEF BridgeShape, CheckCode, InHand, Codes
    <3>2. \A d \in Chats : d # c => handling'[d] = handling[d]
      BY <2>6 DEF CheckCode, Rest, BridgeShape
    <3>3. CASE code[k].state = "fresh"
      <4> DEFINE new == <<k, c, code[k].user>>
      <4>1. linkings' = linkings \union {new} /\ UNCHANGED <<owner, link>>
        BY <2>6, <3>3 DEF CheckCode, Unchanged
      <4>2. /\ \A j \in Codes : j # k => code'[j] = code[j]
            /\ code'[k].state = "used"
        BY <2>6, <3>1, <3>3 DEF CheckCode, ConsumeCode, BridgeShape, CodeRows
      <4>3. \A l \in linkings : l[1] # k
        BY <3>1, <3>3 DEF OwnerInv, CodeInv
      <4>4. CodeInv'
        <5>1. (\A j \in Codes : code[j].state = "fresh" => code[j].user \in Users)'
          BY <4>2 DEF OwnerInv, CodeInv
        <5>2. (\A l \in linkings : l[1] # 0 => l[1] \in Codes /\ code[l[1]].state = "used")'
          BY <3>1, <4>1, <4>2 DEF OwnerInv, CodeInv
        <5>3. (\A l \in linkings, m \in linkings : l[1] = m[1] /\ l[1] # 0 => l = m)'
          <6>1. new[1] = k
            OBVIOUS
          <6>2. QED
            BY <4>1, <4>3, <6>1 DEF OwnerInv, CodeInv
        <5>4. QED
          BY <5>1, <5>2, <5>3 DEF CodeInv
      <4>5. LinkInv'
        BY <4>1 DEF OwnerInv, LinkInv, EntitledIn
      <4>6. handling'[c] = [handling[c] EXCEPT !.at = "existing", !.user = code[k].user, !.session = code[k].session]
        BY <2>6, <3>3 DEF CheckCode, BridgeShape
      <4>7. HandInv(c)'
        <5>1. /\ handling'[c].at = "existing" /\ handling'[c].user = code[k].user
              /\ handling'[c].kind = handling[c].kind
          BY <3>1, <4>6, FieldsMoved
        <5>2. code[k].user \in Users
          BY <3>1, <3>3 DEF OwnerInv, CodeInv
        <5>3. new \in linkings' /\ new[2] = c /\ new[3] = code[k].user
          BY <4>1
        <5>4. \E l \in linkings' : l[2] = c /\ l[3] = handling'[c].user
          BY <5>1, <5>3
        <5>5. handling[c].kind = "code"
          BY <2>6 DEF CheckCode, OwnerInv, HandInv
        <5>6. QED
          BY <5>1, <5>2, <5>4, <5>5 DEF HandInv, EntitledIn
      <4>8. (\A d \in Chats : HandInv(d))'
        BY <3>2, <4>1, <4>7, HandsKept DEF OwnerInv
      <4>9. QED
        BY <4>4, <4>5, <4>8 DEF OwnerInv
    <3>4. CASE code[k].state # "fresh"
      BY <2>1, <2>2, <2>3, <2>6, <3>2, <3>4 DEF CheckCode, Rest, Unchanged, OwnerInv, BridgeShape
    <3>5. QED
      BY <3>3, <3>4
  <2>7. ASSUME NEW c \in Chats, handling[c].at \notin {"rest", "code", "link"},
               handling'[c].kind = handling[c].kind, handling'[c].user = handling[c].user,
               linkings \subseteq linkings',
               handling'[c].at \notin {"code", "existing"}, handling'[c].at = "relink" => handling[c].at = "existing",
               handling'[c].at = "turn" \/ (handling'[c].at = "activate" /\ handling[c].kind = "text") =>
                 handling'[c].session \in BridgeSessions /\ owner'[handling'[c].session] \in {handling[c].user, "gone"}
        PROVE  HandInv(c)'
    <3>1. EntitledIn(c, handling[c].user)
      BY <2>7 DEF OwnerInv, HandInv
    <3>2. handling[c].at = "existing" => handling[c].kind = "code"
      BY <2>7 DEF OwnerInv, HandInv
    <3>3. QED
      BY <2>7, <3>1, <3>2 DEF HandInv, EntitledIn
  <2>8. ASSUME NEW c \in Chats, NEW h, handling' = [handling EXCEPT ![c] = h]
        PROVE  handling'[c] = h /\ \A d \in Chats : d # c => handling'[d] = handling[d]
    BY <2>8 DEF BridgeShape
  <2>9. ASSUME NEW c \in Chats, Rest(c)
        PROVE  \A d \in Chats : handling'[d] \in {handling[d], Resting}
    BY <2>9 DEF Rest, BridgeShape
  <2>10. ASSUME NEW c \in Chats, NEW at, Place(c, at)
         PROVE  /\ handling'[c].at = at /\ handling'[c].kind = handling[c].kind
                /\ handling'[c].user = handling[c].user /\ handling'[c].session = handling[c].session
                /\ \A d \in Chats : d # c => handling'[d] = handling[d]
    <3>1. handling[c] \in InHand
      BY DEF BridgeShape
    <3>2. handling' = [handling EXCEPT ![c] = [handling[c] EXCEPT !.at = at]]
      BY <2>10 DEF Place, BridgeShape
    <3>3. handling'[c] = [handling[c] EXCEPT !.at = at] /\ \A d \in Chats : d # c => handling'[d] = handling[d]
      BY <3>2 DEF BridgeShape
    <3>4. QED
      BY <3>1, <3>3, FieldsMoved
  <2>11. ASSUME NEW c \in Chats, FindExisting(c) PROVE OwnerInv'
    <3>1. UNCHANGED <<owner, link, code, linkings>> /\ handling[c].at = "existing" /\ handling[c].kind = "code"
      BY <2>11 DEF FindExisting, Unchanged, OwnerInv, HandInv
    <3>2. ASSUME NEW at \in {"relink", "activate"}, Place(c, at) PROVE OwnerInv'
      <4>1. HandInv(c)'
        BY <2>7, <2>10, <3>1, <3>2
      <4>2. QED
        BY <2>1, <2>2, <2>3, <2>10, <3>1, <3>2, <4>1 DEF OwnerInv
    <3>3. ASSUME Rest(c) PROVE OwnerInv'
      BY <2>1, <2>2, <2>3, <2>9, <3>1, <3>3 DEF OwnerInv
    <3>4. QED
      BY <2>11, <3>2, <3>3 DEF FindExisting
  <2>12. ASSUME NEW c \in Chats, Relink(c) PROVE OwnerInv'
    <3>1. UNCHANGED <<owner, code, linkings>> /\ Rest(c) /\ EntitledIn(c, handling[c].user)
      BY <2>12 DEF Relink, Unchanged, OwnerInv, HandInv
    <3>2. /\ link'[c].user = handling[c].user
          /\ \A d \in Chats : d # c => link'[d] = NoLink \/ (link'[d] = link[d] /\ link[d].user # handling[c].user)
      <4>1. link' = [d \in Chats |-> IF d = c THEN [user |-> handling[c].user, session |-> handling[c].session]
                                     ELSE IF link[d].user = handling[c].user THEN NoLink ELSE link[d]]
        BY <2>12 DEF Relink, LinkChat
      <4>2. link'[c] = [user |-> handling[c].user, session |-> handling[c].session]
        BY <4>1
      <4>3. \A d \in Chats : d # c =>
              link'[d] = IF link[d].user = handling[c].user THEN NoLink ELSE link[d]
        BY <4>1
      <4>4. QED
        BY <4>2, <4>3
    <3>3. \A d \in Chats : link'[d] # NoLink => \E l \in linkings' : l[2] = d /\ l[3] = link'[d].user /\ link'[d].user \in Users
      BY <3>1, <3>2 DEF OwnerInv, LinkInv, EntitledIn
    <3>4. \A d \in Chats, e \in Chats : link'[d].user = link'[e].user /\ link'[d] # NoLink => d = e
      <4> SUFFICES ASSUME NEW d \in Chats, NEW e \in Chats, link'[d].user = link'[e].user, link'[d] # NoLink
                   PROVE  d = e
        OBVIOUS
      <4>1. link'[e].user \in Users /\ link'[e] # NoLink
        BY <3>3, BridgeAssumption DEF NoLink
      <4>2. QED
        BY <3>2, <4>1 DEF OwnerInv, LinkInv
    <3>5. LinkInv'
      BY <3>3, <3>4 DEF LinkInv, EntitledIn
    <3>6. QED
      BY <2>2, <2>3, <2>9, <3>1, <3>5 DEF OwnerInv
  <2>13. ASSUME NEW c \in Chats, ReadLink(c) PROVE OwnerInv'
    <3>1. UNCHANGED <<owner, link, code, linkings>> /\ handling[c] \in InHand
      BY <2>13 DEF ReadLink, Unchanged, BridgeShape
    <3>2. ASSUME link[c] # NoLink PROVE OwnerInv'
      <4>1. PICK at \in {"ensure", "create", "unlink"} :
              handling'[c] = [handling[c] EXCEPT !.user = link[c].user, !.session = link[c].session, !.at = at]
        BY <2>13, <3>2 DEF ReadLink, BridgeShape
      <4>2. handling'[c].at = at /\ handling'[c].user = link[c].user
        BY <3>1, <4>1, FieldsMoved
      <4>3. link[c].user \in Users /\ \E l \in linkings : l[2] = c /\ l[3] = link[c].user
        BY <3>2 DEF OwnerInv, LinkInv, EntitledIn
      <4>4. HandInv(c)'
        BY <3>1, <4>2, <4>3 DEF HandInv, EntitledIn
      <4>5. \A d \in Chats : d # c => handling'[d] = handling[d]
        BY <2>13, <3>2 DEF ReadLink, BridgeShape
      <4>6. QED
        BY <2>1, <2>2, <2>3, <3>1, <4>4, <4>5 DEF OwnerInv
    <3>3. ASSUME Rest(c) PROVE OwnerInv'
      BY <2>1, <2>2, <2>3, <2>9, <3>1, <3>3 DEF OwnerInv
    <3>4. QED
      BY <2>13, <3>2, <3>3 DEF ReadLink
  <2>14. ASSUME NEW c \in Chats, EnsureSession(c) PROVE OwnerInv'
    <3>1. UNCHANGED <<owner, link, code, linkings>> /\ handling[c].at = "ensure"
      BY <2>14 DEF EnsureSession, Unchanged
    <3>2. CASE Valid(handling[c].session, handling[c].user)
      <4>1. Place(c, "turn")
        BY <2>14, <3>2 DEF EnsureSession
      <4>2. HandInv(c)'
        BY <2>7, <2>10, <3>1, <3>2, <4>1 DEF Valid
      <4>3. QED
        BY <2>1, <2>2, <2>3, <2>10, <3>1, <4>1, <4>2 DEF OwnerInv
    <3>3. CASE ~Valid(handling[c].session, handling[c].user)
      <4>1. Place(c, "create")
        BY <2>14, <3>3 DEF EnsureSession
      <4>2. HandInv(c)'
        BY <2>7, <2>10, <3>1, <4>1
      <4>3. QED
        BY <2>1, <2>2, <2>3, <2>10, <3>1, <4>1, <4>2 DEF OwnerInv
    <3>4. QED
      BY <3>2, <3>3
  <2>15. ASSUME NEW c \in Chats, CreateSession(c) PROVE OwnerInv'
    <3>1. UNCHANGED <<link, code, linkings>> /\ handling[c].at = "create" /\ handling[c] \in InHand
      BY <2>15 DEF CreateSession, Unchanged, BridgeShape
    <3>2. PICK s \in BridgeSessions :
            /\ owner[s] = "none" /\ owner' = [owner EXCEPT ![s] = handling[c].user]
            /\ handling' = [handling EXCEPT ![c] = [handling[c] EXCEPT !.session = s, !.at = "activate"]]
      BY <2>15 DEF CreateSession, BridgeShape
    <3>3. owner'[s] = handling[c].user /\ \A r \in BridgeSessions : owner'[r] = owner[r] \/ owner[r] = "none"
      BY <3>2 DEF BridgeShape
    <3>4. /\ handling'[c] = [handling[c] EXCEPT !.session = s, !.at = "activate"]
          /\ \A d \in Chats : d # c => handling'[d] = handling[d]
      BY <2>8, <3>2
    <3>5. handling'[c].at = "activate" /\ handling'[c].kind = handling[c].kind
          /\ handling'[c].user = handling[c].user /\ handling'[c].session = s
      BY <3>1, <3>4, FieldsMoved
    <3>6. HandInv(c)'
      BY <2>7, <3>1, <3>3, <3>5
    <3>7. (\A d \in Chats : HandInv(d))'
      BY <3>1, <3>3, <3>4, <3>6, HandsKept DEF OwnerInv
    <3>8. QED
      BY <2>1, <2>2, <3>1, <3>7 DEF OwnerInv
  <2>16. ASSUME NEW c \in Chats, Activate(c) PROVE OwnerInv'
    <3>1. UNCHANGED <<owner, code, linkings>> /\ handling[c].at = "activate" /\ SetActiveSession(c, handling[c].session)
      BY <2>16 DEF Activate, Unchanged
    <3>2. \A s \in AnySession : SetActiveSession(c, s) => LinkInv'
      BY <3>1, ActiveSessionKeepsLinks DEF OwnerInv
    <3>3. LinkInv'
      BY <3>1, <3>2 DEF BridgeShape, InHand
    <3>4. ASSUME Place(c, "turn"), handling[c].kind = "text" PROVE OwnerInv'
      <4>1. handling[c].session \in BridgeSessions /\ owner[handling[c].session] \in {handling[c].user, "gone"}
        BY <3>1, <3>4 DEF OwnerInv, HandInv
      <4>2. HandInv(c)'
        BY <2>7, <2>10, <3>1, <3>4, <4>1
      <4>3. QED
        BY <2>2, <2>3, <2>10, <3>1, <3>3, <3>4, <4>2 DEF OwnerInv
    <3>5. ASSUME Rest(c) PROVE OwnerInv'
      BY <2>2, <2>3, <2>9, <3>1, <3>3, <3>5 DEF OwnerInv
    <3>6. QED
      BY <2>16, <3>4, <3>5 DEF Activate
  <2>17. ASSUME NEW c \in Chats, UnlinkChat(c) PROVE OwnerInv'
    <3>1. UNCHANGED <<owner, code, linkings>> /\ Rest(c)
      BY <2>17 DEF UnlinkChat, Unchanged
    <3>2. \A d \in Chats : link'[d] \in {link[d], NoLink}
      BY <2>17 DEF UnlinkChat, BridgeShape
    <3>3. \A d \in Chats : link'[d] = NoLink \/ (link[d] # NoLink /\ link'[d].user = link[d].user)
      BY <3>2
    <3>4. LinkInv'
      BY <3>1, <3>3, LinksKept DEF OwnerInv
    <3>5. QED
      BY <2>2, <2>3, <2>9, <3>1, <3>4 DEF OwnerInv
  <2>18. ASSUME NEW c \in Chats, AskModel(c) \/ HandleFails(c) PROVE OwnerInv'
    BY <2>1, <2>2, <2>3, <2>9, <2>18 DEF AskModel, HandleFails, Unchanged, OwnerInv
  <2>19. ASSUME NEW u \in Users, UnlinkUser(u) PROVE OwnerInv'
    <3>1. UNCHANGED <<owner, code, linkings, handling>> /\ \A d \in Chats : link'[d] \in {link[d], NoLink}
      BY <2>19 DEF UnlinkUser, WebOnly
    <3>2. \A d \in Chats : link'[d] = NoLink \/ (link[d] # NoLink /\ link'[d].user = link[d].user)
      BY <3>1
    <3>3. LinkInv'
      BY <3>1, <3>2, LinksKept DEF OwnerInv
    <3>4. QED
      BY <2>2, <2>3, <3>1, <3>3 DEF OwnerInv
  <2>20. ASSUME NEW u \in Users, NEW s \in BridgeSessions, ContinueSession(u, s) PROVE OwnerInv'
    BY <2>1, <2>2, <2>3, <2>20 DEF ContinueSession, WebOnly, OwnerInv
  <2>21. ASSUME NEW u \in Users, NEW k \in Codes, NEW s \in AnySession, CreateCode(u, k, s) PROVE OwnerInv'
    <3>1. UNCHANGED <<owner, link, linkings, handling>> /\ code[k].state = "none"
      BY <2>21 DEF CreateCode, WebOnly
    <3>2. \A j \in Codes : [code[j] EXCEPT !.state = "retired"].state = "retired"
      BY DEF BridgeShape, CodeRows
    <3>3. \A j \in Codes : /\ code'[j].state = "fresh" => code'[j].user \in Users
                           /\ code[j].state = "used" => code'[j].state = "used"
      BY <2>21, <3>1, <3>2 DEF CreateCode, OwnerInv, CodeInv
    <3>4. CodeInv'
      BY <3>1, <3>3, CodesKept DEF OwnerInv
    <3>5. QED
      BY <2>1, <2>3, <3>1, <3>4 DEF OwnerInv
  <2>22. ASSUME NEW s \in BridgeSessions, DeleteWebChat(s) PROVE OwnerInv'
    <3>1. UNCHANGED <<linkings, handling>>
      BY <2>22 DEF DeleteWebChat, WebOnly
    <3>2. \A j \in Codes : [code[j] EXCEPT !.state = "retired"].state = "retired"
      BY DEF BridgeShape, CodeRows
    <3>3. \A j \in Codes : /\ code'[j].state = "fresh" => code'[j].user \in Users
                           /\ code[j].state = "used" => code'[j].state = "used"
      BY <2>22, <3>2 DEF DeleteWebChat, OwnerInv, CodeInv
    <3>4. \A r \in BridgeSessions : owner'[r] \in {owner[r], "gone"}
      BY <2>22 DEF DeleteWebChat, BridgeShape
    <3>5. \A d \in Chats : [link[d] EXCEPT !.session = "none"].user = link[d].user
      BY LinkSwitched DEF BridgeShape, AnySession
    <3>6. \A d \in Chats : link[d] = NoLink => link[d].session # s
      BY BridgeAssumption DEF NoLink
    <3>7. \A d \in Chats : \/ link'[d] = link[d]
                           \/ link'[d] = [link[d] EXCEPT !.session = "none"] /\ link[d].session = s
      <4>1. link' = [d \in Chats |-> IF link[d].session = s THEN [link[d] EXCEPT !.session = "none"] ELSE link[d]]
        BY <2>22 DEF DeleteWebChat
      <4>2. QED
        BY <4>1
    <3>8. LinkInv'
      BY <3>1, <3>5, <3>6, <3>7, LinksKept DEF OwnerInv
    <3>9. CodeInv'
      BY <3>1, <3>3, CodesKept DEF OwnerInv
    <3>10. (\A c \in Chats : HandInv(c))'
      BY <3>1, <3>4, HandsKept DEF OwnerInv
    <3>11. QED
      BY <3>8, <3>9, <3>10 DEF OwnerInv
  <2>23. CASE SwitchSession
    <3>1. UNCHANGED <<owner, code, linkings, handling>>
      BY <2>23 DEF SwitchSession, WebOnly
    <3>2. web.chat \in Chats /\ web.session \in AnySession /\ SetActiveSession(web.chat, web.session)
      BY <2>23 DEF SwitchSession, BridgeShape, WebRequests
    <3>3. \A c \in Chats, s \in AnySession : SetActiveSession(c, s) => LinkInv'
      BY <3>1, ActiveSessionKeepsLinks DEF OwnerInv
    <3>4. QED
      BY <2>2, <2>3, <3>1, <3>2, <3>3 DEF OwnerInv
  <2>24. CASE BridgeDies
    <3>1. UNCHANGED <<owner, link, code, linkings>> /\ \A d \in Chats : handling'[d] = Resting
      BY <2>24 DEF BridgeDies
    <3>2. QED
      BY <2>1, <2>2, <2>3, <3>1 DEF OwnerInv
  <2>25. CASE UNCHANGED bridgeVars
    BY <2>1, <2>2, <2>3, <2>25 DEF bridgeVars, OwnerInv
  <2>26. QED
    BY <2>4, <2>5, <2>6, <2>11, <2>12, <2>13, <2>14, <2>15, <2>16, <2>17, <2>18, <2>19, <2>20, <2>21, <2>22, <2>23,
       <2>24, <2>25
    DEF BridgeNext, AnySession
<1>3. OwnerInv => AnswersStayWithTheOwner
  <2> SUFFICES ASSUME OwnerInv PROVE AnswersStayWithTheOwner
    OBVIOUS
  <2>1. ASSUME NEW c \in Chats, handling[c].at = "turn"
        PROVE  /\ owner[handling[c].session] \in {handling[c].user, "gone"}
               /\ \E l \in linkings : l[2] = c /\ l[3] = handling[c].user
    BY <2>1 DEF OwnerInv, HandInv, EntitledIn
  <2>2. \A l \in linkings, m \in linkings : l[1] = m[1] /\ l[1] # 0 => l = m
    BY DEF OwnerInv, CodeInv
  <2>3. \A c \in Chats, d \in Chats : link[c].user = link[d].user /\ link[c] # NoLink => c = d
    BY DEF OwnerInv, LinkInv
  <2>4. QED
    BY <2>1, <2>2, <2>3 DEF AnswersStayWithTheOwner
<1>4. QED
  BY <1>1, <1>2, <1>3, BridgeTypeCorrect, PTL DEF BridgeSpec

-----------------------------------------------------------------------------
(***************************************************************************)
(* Questions and their answers.  An answer that is used or on its way was  *)
(* accepted; the one that was accepted is used, on its way or lost, unless *)
(* its question is settled -- and no question is ever opened again.        *)
(***************************************************************************)
Settler == Posts \union {"expired", "cancelled"}

AnswersShape ==
  /\ ask \in [Asks -> {"new", "open", "answered", "expired", "cancelled"}]
  /\ keys \subseteq Asks /\ relay \subseteq Asks \X Posts /\ missed \subseteq Posts
  /\ post \in [Posts -> [of : Asks \union {"nothing"}, at : {"idle", "found", "done"},
                         told : {"nothing", "ok", "expired", "failed"}]]
  /\ settled \in Seq(Asks \X Settler)

\* A question has at most one settlement, and has it when it is settled.
SettledOnce ==
  /\ \A i, k \in DOMAIN settled : settled[i][1] = settled[k][1] => i = k
  /\ \A q \in Asks : ask[q] \notin {"new", "open"} <=> \E i \in DOMAIN settled : settled[i][1] = q

AnswerOf(p) ==
  /\ post[p].told # "ok" => /\ \A i \in DOMAIN settled : settled[i][2] # p
                            /\ \A r \in relay : r[2] # p
  /\ post[p].at # "idle" => post[p].of \in Asks /\ ask[post[p].of] # "new"
  /\ post[p].told # "nothing" => post[p].at = "done"
  /\ post[p].told = "ok" => \/ <<post[p].of, p>> \in ToSet(settled) \/ <<post[p].of, p>> \in relay
                            \/ p \in missed \/ ask[post[p].of] # "open"

AnswersInv == AnswersShape /\ SettledOnce /\ \A p \in Posts : AnswerOf(p)

\* A question is settled.
Settles(q, by) ==
  /\ ask' \in [Asks -> {"new", "open", "answered", "expired", "cancelled"}]
  /\ ask[q] = "open" /\ ask'[q] \notin {"new", "open"} /\ \A x \in Asks : x # q => ask'[x] = ask[x]
  /\ settled' = Append(settled, <<q, by>>) /\ keys' \subseteq Asks

\* FinishAsk settles it.
LEMMA SettledFields ==
  ASSUME AnswersShape, NEW q \in Asks, NEW outcome \in {"answered", "expired", "cancelled"}, NEW by \in Settler,
         FinishAsk(q, outcome, by)
  PROVE  Settles(q, by)
BY DEF AnswersShape, FinishAsk, Settles

\* It then has one settlement more, its own.
LEMMA OneSettlement ==
  ASSUME AnswersInv, NEW q \in Asks, NEW by \in Settler, Settles(q, by)
  PROVE  /\ settled' \in Seq(Asks \X Settler) /\ SettledOnce'
         /\ ToSet(settled') = ToSet(settled) \union {<<q, by>>}
         /\ \A i \in DOMAIN settled' : settled'[i][2] = by \/ \E k \in DOMAIN settled : settled[k][2] = settled'[i][2]
<1> DEFINE N == Len(settled)
<1>1. settled \in Seq(Asks \X Settler) /\ <<q, by>> \in Asks \X Settler /\ settled' = Append(settled, <<q, by>>)
  BY DEF AnswersInv, AnswersShape, Settles
<1>2. settled' \in Seq(Asks \X Settler) /\ ToSet(settled') = ToSet(settled) \union {<<q, by>>}
  BY <1>1, AppendedSet
<1>3. /\ N \in Nat /\ DOMAIN settled = 1 .. N /\ DOMAIN settled' = 1 .. N + 1
      /\ settled'[N + 1] = <<q, by>> /\ \A i \in 1 .. N : settled'[i] = settled[i]
  BY <1>1
<1> HIDE DEF N
<1>4. \A i \in DOMAIN settled' : (i \in 1 .. N /\ settled'[i] = settled[i]) \/ (i = N + 1 /\ settled'[i] = <<q, by>>)
  BY <1>3
<1>5. \A i \in 1 .. N : settled[i][1] # q
  BY <1>3 DEF AnswersInv, SettledOnce, Settles
<1>6. SettledOnce'
  <2>1. \A i, k \in DOMAIN settled' : settled'[i][1] = settled'[k][1] => i = k
    BY <1>3, <1>4, <1>5 DEF AnswersInv, SettledOnce
  <2>2. ASSUME NEW x \in Asks
        PROVE  ask'[x] \notin {"new", "open"} <=> \E i \in DOMAIN settled' : settled'[i][1] = x
    <3>1. CASE x = q
      <4>1. N + 1 \in DOMAIN settled' /\ settled'[N + 1][1] = q
        BY <1>3
      <4>2. QED
        BY <3>1, <4>1 DEF Settles
    <3>2. CASE x # q
      <4>1. (\E i \in DOMAIN settled' : settled'[i][1] = x) <=> (\E i \in DOMAIN settled : settled[i][1] = x)
        BY <1>3, <1>4, <3>2
      <4>2. QED
        BY <3>2, <4>1 DEF AnswersInv, SettledOnce, Settles
    <3>3. QED
      BY <3>1, <3>2
  <2>3. QED
    BY <2>1, <2>2 DEF SettledOnce
<1>7. QED
  BY <1>2, <1>3, <1>4, <1>6

\* What a step leaves of an answer it is not about.
LEMMA AnswerStays ==
  ASSUME AnswersInv, NEW p \in Posts, post'[p] = post[p],
         \A i \in DOMAIN settled' : settled'[i][2] = p => post[p].told = "ok" \/ \E k \in DOMAIN settled : settled[k][2] = p,
         \A r \in relay' : r[2] = p => post[p].told = "ok" \/ r \in relay,
         \A x \in Asks : ask[x] # "new" => ask'[x] # "new" /\ (ask[x] = "open" \/ ask'[x] = ask[x]),
         ToSet(settled) \subseteq ToSet(settled'), missed \subseteq missed',
         post[p].told = "ok" /\ <<post[p].of, p>> \in relay => 
           \/ <<post[p].of, p>> \in relay' \/ <<post[p].of, p>> \in ToSet(settled')
           \/ p \in missed' \/ ask'[post[p].of] # "open"
  PROVE  AnswerOf(p)'
<1>1. AnswerOf(p)
  BY DEF AnswersInv
<1>2. post[p].told = "ok" => post[p].of \in Asks /\ ask[post[p].of] # "new"
  BY <1>1 DEF AnswerOf
<1>3. post[p].told # "ok" => /\ \A i \in DOMAIN settled' : settled'[i][2] # p
                             /\ \A r \in relay' : r[2] # p
  BY <1>1 DEF AnswerOf
<1>4. post[p].at # "idle" => post[p].of \in Asks /\ ask'[post[p].of] # "new"
  BY <1>1 DEF AnswerOf
<1>5. post[p].told = "ok" => \/ <<post[p].of, p>> \in ToSet(settled') \/ <<post[p].of, p>> \in relay'
                             \/ p \in missed' \/ ask'[post[p].of] # "open"
  BY <1>1, <1>2 DEF AnswerOf
<1>6. QED
  BY <1>1, <1>3, <1>4, <1>5 DEF AnswerOf

\* An answer is told what became of it.
TellsIt(p, q, place, told) ==
  /\ post' \in [Posts -> [of : Asks \union {"nothing"}, at : {"idle", "found", "done"},
                          told : {"nothing", "ok", "expired", "failed"}]]
  /\ post'[p].of = q /\ post'[p].at = place /\ post'[p].told = told
  /\ \A x \in Posts : x # p => post'[x] = post[x]

\* Told does so.
LEMMA ToldFields ==
  ASSUME AnswersShape, NEW p \in Posts, NEW q \in Asks, NEW place \in {"found", "done"},
         NEW told \in {"nothing", "ok", "expired", "failed"}, Told(p, q, place, told)
  PROVE  TellsIt(p, q, place, told)
BY DEF AnswersShape, Told, TellsIt

\* The initial state.
LEMMA AnswersStart == AnswersInit => AnswersInv
<1> SUFFICES ASSUME AnswersInit PROVE AnswersInv
  OBVIOUS
<1>1. \A p \in Posts : post[p].of = "nothing" /\ post[p].at = "idle" /\ post[p].told = "nothing"
  BY DEF AnswersInit, NoPost
<1>2. AnswersShape
  BY DEF AnswersInit, AnswersShape, NoPost
<1>3. QED
  BY <1>1, <1>2 DEF AnswersInit, AnswersInv, SettledOnce, AnswerOf

\* A step that settles a question and tells nobody of an answer.
LEMMA SettlingKeeps ==
  ASSUME AnswersInv, NEW q \in Asks, NEW by \in Settler, Settles(q, by), relay' \subseteq relay, missed' = missed,
         \A r \in relay : r \in relay' \/ r = <<q, by>>, by \in Posts => <<q, by>> \in relay,
         post' = post
  PROVE  AnswersInv'
<1>1. /\ settled' \in Seq(Asks \X Settler) /\ SettledOnce' /\ ToSet(settled') = ToSet(settled) \union {<<q, by>>}
      /\ \A i \in DOMAIN settled' : settled'[i][2] = by \/ \E k \in DOMAIN settled : settled[k][2] = settled'[i][2]
  BY OneSettlement
<1>2. AnswersShape'
  BY <1>1 DEF AnswersInv, AnswersShape, Settles
<1>3. ASSUME NEW p \in Posts PROVE AnswerOf(p)'
  <2>1. by = p => post[p].told = "ok"
    <3>1. by = p => \E r \in relay : r[2] = p
      OBVIOUS
    <3>2. QED
      BY <3>1 DEF AnswersInv, AnswerOf
  <2>2. \A i \in DOMAIN settled' : settled'[i][2] = p => post[p].told = "ok" \/ \E k \in DOMAIN settled : settled[k][2] = p
    BY <1>1, <2>1
  <2>3. \A r \in relay' : r[2] = p => post[p].told = "ok" \/ r \in relay
    OBVIOUS
  <2>4. \A x \in Asks : ask[x] # "new" => ask'[x] # "new" /\ (ask[x] = "open" \/ ask'[x] = ask[x])
    BY DEF Settles
  <2>5. post[p].told = "ok" /\ <<post[p].of, p>> \in relay => 
           \/ <<post[p].of, p>> \in relay' \/ <<post[p].of, p>> \in ToSet(settled')
           \/ p \in missed' \/ ask'[post[p].of] # "open"
    BY <1>1
  <2>6. post'[p] = post[p] /\ ToSet(settled) \subseteq ToSet(settled') /\ missed \subseteq missed'
    BY <1>1
  <2>7. QED
    BY <2>2, <2>3, <2>4, <2>5, <2>6, AnswerStays
<1>4. QED
  BY <1>1, <1>2, <1>3 DEF AnswersInv

\* A step that settles nothing.
LEMMA OthersKeep ==
  ASSUME AnswersInv, AnswersShape', settled' = settled, missed \subseteq missed',
         \A x \in Asks : ask'[x] = ask[x] \/ (ask[x] = "new" /\ ask'[x] = "open"),
         \A p \in Posts : AnswerOf(p)' \/
           /\ post'[p] = post[p] /\ \A r \in relay' : r[2] = p => post[p].told = "ok" \/ r \in relay
           /\ <<post[p].of, p>> \in relay =>
                <<post[p].of, p>> \in relay' \/ p \in missed' \/ (post[p].of \in Asks /\ ask'[post[p].of] # "open")
  PROVE  AnswersInv'
<1>1. SettledOnce'
  BY DEF AnswersInv, SettledOnce
<1>2. ASSUME NEW p \in Posts, ~ AnswerOf(p)' PROVE FALSE
  <2>1. /\ post'[p] = post[p] /\ \A r \in relay' : r[2] = p => post[p].told = "ok" \/ r \in relay
        /\ <<post[p].of, p>> \in relay =>
             <<post[p].of, p>> \in relay' \/ p \in missed' \/ (post[p].of \in Asks /\ ask'[post[p].of] # "open")
    BY <1>2
  <2>2. \A x \in Asks : ask[x] # "new" => ask'[x] # "new" /\ (ask[x] = "open" \/ ask'[x] = ask[x])
    OBVIOUS
  <2>3. \A i \in DOMAIN settled' : settled'[i][2] = p => post[p].told = "ok" \/ \E k \in DOMAIN settled : settled[k][2] = p
    OBVIOUS
  <2>4. ToSet(settled) \subseteq ToSet(settled')
    OBVIOUS
  <2>5. AnswerOf(p)'
    BY <2>1, <2>2, <2>3, <2>4, AnswerStays
  <2>6. QED
    BY <1>2, <2>5
<1>3. QED
  BY <1>1, <1>2 DEF AnswersInv

\* An answer that settles its question where it waits.
LEMMA SettledAtOnce ==
  ASSUME AnswersInv, NEW p \in Posts, NEW q \in Asks, post[p] = NoPost, Settles(q, p), TellsIt(p, q, "done", "ok"),
         relay' = relay, missed' = missed
  PROVE  AnswersInv'
<1>1. /\ settled' \in Seq(Asks \X Settler) /\ SettledOnce' /\ ToSet(settled') = ToSet(settled) \union {<<q, p>>}
      /\ \A i \in DOMAIN settled' : settled'[i][2] = p \/ \E k \in DOMAIN settled : settled[k][2] = settled'[i][2]
  BY OneSettlement DEF Settler
<1>2. AnswersShape'
  BY <1>1 DEF AnswersInv, AnswersShape, Settles, TellsIt
<1>3. AnswerOf(p)'
  <2>1. <<post'[p].of, p>> \in ToSet(settled') /\ post'[p].told = "ok" /\ post'[p].at = "done"
    BY <1>1 DEF TellsIt
  <2>2. post'[p].of = q /\ ask'[q] # "new"
    BY DEF TellsIt, Settles
  <2>3. QED
    BY <2>1, <2>2 DEF AnswerOf
<1>4. ASSUME NEW x \in Posts, x # p PROVE AnswerOf(x)'
  <2>1. post'[x] = post[x]
    BY <1>4 DEF TellsIt
  <2>2. \A i \in DOMAIN settled' : settled'[i][2] = x => post[x].told = "ok" \/ \E k \in DOMAIN settled : settled[k][2] = x
    BY <1>1, <1>4
  <2>3. \A y \in Asks : ask[y] # "new" => ask'[y] # "new" /\ (ask[y] = "open" \/ ask'[y] = ask[y])
    BY DEF Settles
  <2>4. ToSet(settled) \subseteq ToSet(settled') /\ missed \subseteq missed'
    BY <1>1
  <2>5. QED
    BY <2>1, <2>2, <2>3, <2>4, AnswerStays
<1>5. QED
  BY <1>1, <1>2, <1>3, <1>4 DEF AnswersInv

\* Every step keeps the answers in step with the questions.
LEMMA AnswersStep == AnswersInv /\ [AnswersNext]_answerVars => AnswersInv'
<1> SUFFICES ASSUME AnswersInv, [AnswersNext]_answerVars PROVE AnswersInv'
  OBVIOUS
<1>0. AnswersShape /\ \A p \in Posts : AnswerOf(p)
  BY DEF AnswersInv
<1>1. ASSUME NEW q \in Asks, RequestCommand(q) \/ WaitForApproval(q) PROVE AnswersInv'
  <2>1. AnswersShape' /\ settled' = settled /\ missed' = missed /\ post' = post /\ relay' = relay
        /\ \A x \in Asks : ask'[x] = ask[x] \/ (ask[x] = "new" /\ ask'[x] = "open")
    BY <1>0, <1>1 DEF AnswersShape, RequestCommand, WaitForApproval, Wait
  <2>2. QED
    BY <2>1, OthersKeep
<1>2. ASSUME UNCHANGED <<ask, relay, post, settled, missed>>, keys' \subseteq keys PROVE AnswersInv'
  <2>1. AnswersShape'
    BY <1>0, <1>2 DEF AnswersShape
  <2>2. QED
    BY <1>2, <2>1, OthersKeep
<1>3. ASSUME NEW p \in Posts, NEW q \in Asks, NEW here \in BOOLEAN, Lookup(p, q, here) PROVE AnswersInv'
  <2>1. CASE here /\ ask[q] = "open"
    <3>1. FinishAsk(q, "answered", p) /\ Told(p, q, "done", "ok") /\ post[p] = NoPost /\ relay' = relay /\ missed' = missed
      BY <1>3, <2>1 DEF Lookup
    <3>2. Settles(q, p)
      BY <1>0, <3>1, SettledFields DEF Settler
    <3>3. TellsIt(p, q, "done", "ok")
      BY <1>0, <3>1, ToldFields
    <3>4. QED
      BY <3>1, <3>2, <3>3, SettledAtOnce
  <2>2. CASE ~ (here /\ ask[q] = "open")
    <3>1. /\ Told(p, q, "found", "nothing") \/ Told(p, q, "done", "expired")
          /\ post[p] = NoPost /\ ask[q] # "new" /\ UNCHANGED <<ask, keys, settled, relay, missed>>
      BY <1>3, <2>2 DEF Lookup
    <3>2. TellsIt(p, q, "found", "nothing") \/ TellsIt(p, q, "done", "expired")
      BY <1>0, <3>1, ToldFields
    <3>3. AnswersShape'
      BY <1>0, <3>1, <3>2 DEF AnswersShape, TellsIt
    <3>4. post[p].told # "ok"
      BY <3>1 DEF NoPost
    <3>5. AnswerOf(p)'
      BY <1>0, <3>1, <3>2, <3>4 DEF AnswerOf, TellsIt
    <3>6. \A x \in Posts : x # p => post'[x] = post[x]
      BY <3>2 DEF TellsIt
    <3>7. QED
      BY <3>1, <3>3, <3>5, <3>6, OthersKeep
  <2>3. QED
    BY <2>1, <2>2
<1>4. ASSUME NEW p \in Posts, Publish(p) PROVE AnswersInv'
  <2>1. post[p].of \in Asks /\ ask[post[p].of] # "new" /\ post[p].at = "found"
    BY <1>0, <1>4 DEF Publish, AnswerOf
  <2>2. TellsIt(p, post[p].of, "done", "ok")
    BY <1>0, <1>4, <2>1, ToldFields DEF Publish
  <2>3. relay' = relay \union {<<post[p].of, p>>} /\ UNCHANGED <<ask, keys, settled, missed>>
    BY <1>4 DEF Publish
  <2>4. AnswersShape'
    BY <1>0, <2>1, <2>2, <2>3 DEF AnswersShape, TellsIt
  <2>5. AnswerOf(p)'
    BY <2>1, <2>2, <2>3 DEF AnswerOf, TellsIt
  <2>6. \A x \in Posts : x # p => post'[x] = post[x]
    BY <2>2 DEF TellsIt
  <2>7. \A x \in Posts : x # p => \A r \in relay' : r[2] = x => r \in relay
    BY <2>3
  <2>8. QED
    BY <2>3, <2>4, <2>5, <2>6, <2>7, OthersKeep
<1>5. ASSUME NEW p \in Posts, PublishFails(p) PROVE AnswersInv'
  <2>1. post[p].of \in Asks /\ ask[post[p].of] # "new" /\ post[p].at = "found" /\ post[p].told # "ok"
    BY <1>0, <1>5 DEF PublishFails, AnswerOf
  <2>2. PICK told \in {"failed", "ok"} : TellsIt(p, post[p].of, "done", told)
    BY <1>0, <1>5, <2>1, ToldFields DEF PublishFails
  <2>3. missed' = missed \union {p} /\ UNCHANGED <<ask, keys, settled, relay>>
    BY <1>5 DEF PublishFails
  <2>4. AnswersShape'
    BY <1>0, <2>1, <2>2, <2>3 DEF AnswersShape, TellsIt
  <2>5. AnswerOf(p)'
    BY <1>0, <2>1, <2>2, <2>3 DEF AnswerOf, TellsIt
  <2>6. \A x \in Posts : x # p => post'[x] = post[x]
    BY <2>2 DEF TellsIt
  <2>7. QED
    BY <2>3, <2>4, <2>5, <2>6, OthersKeep
<1>6. ASSUME NEW r \in relay, Deliver(r) PROVE AnswersInv'
  <2>1. r \in Asks \X Posts /\ r = <<r[1], r[2]>> /\ r[1] \in Asks /\ r[2] \in Posts
    BY <1>0 DEF AnswersShape
  <2>2. CASE listening = "yes" /\ ask[r[1]] = "open"
    <3>1. FinishAsk(r[1], "answered", r[2]) /\ missed' = missed /\ relay' = relay \ {r} /\ post' = post
      BY <1>6, <2>2 DEF Deliver
    <3>2. Settles(r[1], r[2])
      BY <1>0, <2>1, <3>1, SettledFields DEF Settler
    <3>3. r[2] \in Settler /\ relay' \subseteq relay /\ (\A x \in relay : x \in relay' \/ x = <<r[1], r[2]>>)
          /\ <<r[1], r[2]>> \in relay
      BY <2>1, <3>1 DEF Settler
    <3>4. QED
      BY <2>1, <3>1, <3>2, <3>3, SettlingKeeps
  <2>3. CASE ~ (listening = "yes" /\ ask[r[1]] = "open")
    <3>1. /\ relay' = relay \ {r} /\ UNCHANGED <<ask, keys, settled, post>>
          /\ missed' = IF listening = "yes" THEN missed ELSE missed \union {r[2]}
      BY <1>6, <2>3 DEF Deliver
    <3>2. AnswersShape'
      BY <1>0, <2>1, <3>1 DEF AnswersShape
    <3>3. ASSUME NEW p \in Posts, <<post[p].of, p>> \in relay
          PROVE <<post[p].of, p>> \in relay' \/ p \in missed' \/ (post[p].of \in Asks /\ ask'[post[p].of] # "open")
      <4>1. CASE <<post[p].of, p>> # r
        BY <3>1, <3>3, <4>1
      <4>2. CASE <<post[p].of, p>> = r
        <5>1. post[p].of = r[1] /\ p = r[2]
          BY <4>2
        <5>2. QED
          BY <2>1, <2>3, <3>1, <5>1
      <4>3. QED
        BY <4>1, <4>2
    <3>4. QED
      BY <3>1, <3>2, <3>3, OthersKeep
  <2>4. QED
    BY <2>2, <2>3
<1>7. ASSUME NEW q \in Asks, TimeOut(q) \/ Stop(q) PROVE AnswersInv'
  <2>1. PICK by \in {"expired", "cancelled"} : FinishAsk(q, by, by)
    BY <1>7 DEF TimeOut, Stop
  <2>2. Settles(q, by) /\ by \in Settler /\ by \notin Posts
    BY <1>0, <2>1, SettledFields, AskAssumption DEF Settler
  <2>3. relay' = relay /\ missed' = missed /\ post' = post
    BY <1>7 DEF TimeOut, Stop
  <2>4. QED
    BY <2>2, <2>3, SettlingKeeps
<1>8. ASSUME (\E q \in Asks : KeyExpires(q)) \/ (\E q \in Commands : Desktop(q)) \/ Subscribed \/ UNCHANGED answerVars
      PROVE AnswersInv'
  BY <1>2, <1>8 DEF KeyExpires, Desktop, Subscribed, answerVars
<1>9. QED
  BY <1>1, <1>3, <1>4, <1>5, <1>6, <1>7, <1>8 DEF AnswersNext, AnswerCommand, AnswerApproval

\* The invariant holds in every reachable state.
LEMMA AnswersInvariant == AnswersSpec => []AnswersInv
BY AnswersStart, AnswersStep, PTL DEF AnswersSpec

\* A question is settled once, by one answer or none, and no accepted answer
\* gets lost without a trace, for any number of questions, answers and faults.
THEOREM RemoteAnswersAreKept == AnswersSpec => []AnswersAreKept
<1>1. AnswersInv => AnswersAreKept
  <2> SUFFICES ASSUME AnswersInv PROVE AnswersAreKept
    OBVIOUS
  <2>1. ASSUME NEW q \in Asks PROVE Cardinality(UsedFor(q)) = (IF ask[q] \in {"new", "open"} THEN 0 ELSE 1)
    <3>1. CASE ask[q] \in {"new", "open"}
      <4>1. UsedFor(q) = {}
        BY <3>1 DEF UsedFor, AnswersInv, SettledOnce
      <4>2. QED
        BY <3>1, <4>1, FS_EmptySet
    <3>2. CASE ask[q] \notin {"new", "open"}
      <4>1. PICK i \in DOMAIN settled : settled[i][1] = q
        BY <3>2 DEF AnswersInv, SettledOnce
      <4>2. UsedFor(q) = {i}
        BY <4>1 DEF UsedFor, AnswersInv, SettledOnce
      <4>3. QED
        BY <3>2, <4>2, FS_Singleton
    <3>3. QED
      BY <3>1, <3>2
  <2>2. ASSUME NEW p \in Posts
        PROVE  /\ post[p].told \in {"expired", "failed"} => \A i \in DOMAIN settled : settled[i][2] # p
               /\ post[p].told = "ok" => \/ <<post[p].of, p>> \in ToSet(settled) \/ <<post[p].of, p>> \in relay
                                         \/ p \in missed \/ ask[post[p].of] # "open"
    BY DEF AnswersInv, AnswerOf
  <2>3. QED
    BY <2>1, <2>2 DEF AnswersAreKept
<1>2. QED
  BY <1>1, AnswersInvariant, PTL

\* The shape of questions, answers and relay is kept by every step.
THEOREM RemoteAnswersTypeCorrect == AnswersSpec => []AnswersShape
<1>1. AnswersInv => AnswersShape
  BY DEF AnswersInv
<1>2. QED
  BY <1>1, AnswersInvariant, PTL

-----------------------------------------------------------------------------
(***************************************************************************)
(* Agents at a provider.  As long as no two requests are about one agent   *)
(* and nothing fails here, what differs between the two sides is what the  *)
(* agent's one request has still to save or to remove.                     *)
(***************************************************************************)
Changes == {"add", "drop", "update"}
RequestShapes ==
  [op : {"none", "create", "delete", "turn"} \union Changes, agent : AgentIds \union {"none"}, fn : Functions \union {"none"},
   read : SUBSET Functions, chat : AgentChats \union {"none"}, at : {"rest", "begin", "save", "undo", "push", "agent", "row", "session", "id"}]

NativeShape ==
  /\ agentRow \in [AgentIds -> {"none", "saved", "deleted"}]
  /\ saved \in [AgentIds -> SUBSET Functions] /\ tools \in [AgentIds -> SUBSET Functions]
  /\ agentChat \in [AgentChats -> AgentIds \union {"none"}]
  /\ remoteId \in [AgentChats -> BOOLEAN] /\ remoteSession \in [AgentChats -> BOOLEAN]
  /\ remoteAgent \in [AgentIds -> {"none", "there", "removed"}]
  /\ request \in [Requests -> RequestShapes] /\ made \in Nat /\ overlapped \in BOOLEAN
  /\ providerFaults \in Nat /\ storeFaults \in Nat

\* A request is at one of its own awaits.
Placed(r) ==
  LET q == request[r] IN
  /\ IF q.op = "none" THEN q = NoRequest ELSE q.agent \in AgentIds
  /\ q.op = "create" => q.at \in {"begin", "save", "undo"}
  /\ q.op \in Changes => q.at \in {"begin", "push", "save"} /\ (q.op # "update" => q.fn \in Functions)
  /\ q.op = "delete" => q.at \in {"begin", "agent", "row"}
  /\ q.op = "turn" => q.at \in {"begin", "session", "id"} /\ q.chat \in AgentChats

Undisturbed == ~overlapped /\ storeFaults = 0
About(r, a) == request[r].op # "none" /\ request[r].agent = a

\* No two requests are about one agent.
Sole == \A q, r \in Requests, a \in AgentIds : About(q, a) /\ About(r, a) => q = r

\* What a request has done so far, and what it still finds.
InStep(r) ==
  LET q == request[r]
      a == q.agent IN
  /\ q.op = "create" => agentRow[a] = "none" /\ (q.at = "save" => remoteAgent[a] = "there") /\ q.at # "undo"
  /\ q.op \in Changes \union {"delete"} => agentRow[a] = "saved"
  /\ q.op \in Changes /\ q.at # "begin" => q.read = saved[a] /\ (q.at = "save" => tools[a] = Wanted(q))
  /\ q.op = "delete" /\ q.at # "begin" /\ providerFaults = 0 =>
       /\ \A c \in AgentChats : agentChat[c] = a => ~remoteSession[c]
       /\ q.at = "row" => remoteAgent[a] = "removed"
  /\ q.op = "turn" /\ q.at # "begin" => agentChat[q.chat] = a

\* The two sides of an agent, and of a chat.
Deleting(r, a) == About(r, a) /\ At(r, "delete", "row")
Saving(r, a) == About(r, a) /\ request[r].op \in Changes /\ request[r].at = "save"
AgentKept(a) ==
  /\ agentRow[a] = "none" => saved[a] = {} /\ tools[a] = {}
  /\ agentRow[a] = "saved" => remoteAgent[a] = "there" \/ \E r \in Requests : Deleting(r, a)
  /\ agentRow[a] = "saved" => tools[a] = saved[a] \/ \E r \in Requests : Saving(r, a)
  /\ agentRow[a] = "deleted" /\ providerFaults = 0 => remoteAgent[a] = "removed"
ChatKept(c) ==
  providerFaults = 0 /\ remoteSession[c] =>
    /\ agentChat[c] \in AgentIds
    /\ remoteId[c] \/ \E r \in Requests : At(r, "turn", "id") /\ request[r].chat = c

NativeInv ==
  /\ NativeShape /\ \A r \in Requests : Placed(r)
  /\ Undisturbed => /\ Sole /\ \A r \in Requests : InStep(r)
                    /\ \A a \in AgentIds : AgentKept(a)
                    /\ \A c \in AgentChats : ChatKept(c)

-----------------------------------------------------------------------------
\* A request of its own, whatever it becomes.
OneMoves(r) == request' \in [Requests -> RequestShapes] /\ \A q \in Requests : q # r => request'[q] = request[q]
GoesOn(r, place) ==
  /\ OneMoves(r) /\ request'[r].op = request[r].op /\ request'[r].agent = request[r].agent
  /\ request'[r].fn = request[r].fn /\ request'[r].read = request[r].read /\ request'[r].chat = request[r].chat
  /\ request'[r].at = place
Leaves(r) == OneMoves(r) /\ request'[r] = NoRequest /\ request'[r].op = "none"

\* It goes on to its next await.
LEMMA GoesOnFields ==
  ASSUME NativeShape, NEW r \in Requests,
         NEW place \in {"save", "undo", "agent", "row", "session", "id"}, To(r, place)
  PROVE  GoesOn(r, place)
<1>1. request \in [Requests -> RequestShapes] /\ request[r] \in RequestShapes /\ request' = [request EXCEPT ![r].at = place]
  BY DEF NativeShape, To
<1> DEFINE q == [request[r] EXCEPT !.at = place]
<1>2. /\ q \in RequestShapes /\ q.op = request[r].op /\ q.agent = request[r].agent /\ q.fn = request[r].fn
      /\ q.read = request[r].read /\ q.chat = request[r].chat /\ q.at = place
  BY <1>1 DEF RequestShapes
<1>3. request' = [request EXCEPT ![r] = q]
  BY <1>1
<1> HIDE DEF q
<1>4. QED
  BY <1>1, <1>2, <1>3 DEF GoesOn, OneMoves

\* It ends.
LEMMA LeavesFields ==
  ASSUME NativeShape, NEW r \in Requests, End(r)
  PROVE  Leaves(r)
<1>1. NoRequest \in RequestShapes /\ NoRequest.op = "none"
  BY DEF NoRequest, RequestShapes
<1>2. request \in [Requests -> RequestShapes] /\ request' = [request EXCEPT ![r] = NoRequest]
  BY DEF NativeShape, End
<1>3. QED
  BY <1>1, <1>2 DEF Leaves, OneMoves

\* It begins, and says so if it is not alone with its agent.
Begins(r, op, a, f, c) ==
  /\ OneMoves(r) /\ request[r].op = "none"
  /\ request'[r].op = op /\ request'[r].agent = a /\ request'[r].fn = f /\ request'[r].chat = c /\ request'[r].at = "begin"
  /\ agentRow[a] = (IF op = "create" THEN "none" ELSE "saved")
  /\ overlapped' = (overlapped \/ \E q \in Requests : request[q].agent = a)
  /\ UNCHANGED <<localVars, remoteVars, providerFaults, storeFaults>>

\* BeginChange does so.
LEMMA BeginsFields ==
  ASSUME NativeShape, NEW r \in Requests, NEW op \in {"create", "delete", "turn"} \union Changes, NEW a \in AgentIds,
         NEW f \in Functions \union {"none"}, NEW c \in AgentChats \union {"none"}, BeginChange(r, op, a, f, c)
  PROVE  Begins(r, op, a, f, c) /\ made' \in Nat /\ overlapped' \in BOOLEAN
<1> DEFINE q == [op |-> op, agent |-> a, fn |-> f, read |-> {}, chat |-> c, at |-> "begin"]
<1>1. q \in RequestShapes /\ q.op = op /\ q.agent = a /\ q.fn = f /\ q.chat = c /\ q.at = "begin"
  BY DEF RequestShapes
<1>2. request \in [Requests -> RequestShapes] /\ request' = [request EXCEPT ![r] = q] /\ request[r] = NoRequest
  BY DEF NativeShape, BeginChange
<1> HIDE DEF q
<1>3. NoRequest.op = "none"
  BY DEF NoRequest
<1>4. made' \in Nat /\ overlapped' \in BOOLEAN
  BY DEF NativeShape, BeginChange
<1>5. QED
  BY <1>1, <1>2, <1>3, <1>4 DEF Begins, OneMoves, BeginChange

\* Whatever a request becomes, the others are where they were.
LEMMA SoleKept ==
  ASSUME Sole, NEW r \in Requests, OneMoves(r), request'[r].op = "none" \/ request'[r].agent = request[r].agent,
         request[r].op # "none"
  PROVE  Sole'
BY DEF Sole, OneMoves, About

\* A step that disturbs nothing was not disturbed before.
LEMMA UndisturbedBefore ==
  ASSUME NativeInv, [NativeNext]_nativeVars, Undisturbed'
  PROVE  Undisturbed
<1>1. storeFaults \in Nat /\ overlapped \in BOOLEAN
  BY DEF NativeInv, NativeShape
<1>2. storeFaults' = storeFaults \/ storeFaults' = storeFaults + 1
  BY DEF NativeNext, nativeVars, BeginChange, ProviderRefuses, CreateRemote, CreateRow, UndoCreate, ReadFunctions, PushTools,
         PushToNone, SaveFunctions, RemoveSessions, RemoveAgent, DeleteRow, AttachSession, CreateRemoteSession,
         SetRemoteSession, RequestDies, historyVars
<1>3. overlapped => overlapped'
  BY <1>1 DEF NativeNext, nativeVars, BeginChange, ProviderRefuses, CreateRemote, CreateRow, UndoCreate, ReadFunctions, PushTools,
         PushToNone, SaveFunctions, RemoveSessions, RemoveAgent, DeleteRow, AttachSession, CreateRemoteSession,
         SetRemoteSession, RequestDies, historyVars
<1>4. QED
  BY <1>1, <1>2, <1>3 DEF Undisturbed

\* Every step keeps the shape of the state, and every request at one of its
\* own awaits.
LEMMA NativeShapeKept ==
  ASSUME NativeInv, [NativeNext]_nativeVars
  PROVE  NativeShape' /\ \A r \in Requests : Placed(r)'
<1>0. NativeShape /\ (\A r \in Requests : Placed(r)) /\ \A r \in Requests : request[r] \in RequestShapes
  BY DEF NativeInv, NativeShape
<1>1. ASSUME NEW r \in Requests, GoesOn(r, "save") \/ GoesOn(r, "undo") \/ GoesOn(r, "agent") \/ GoesOn(r, "row")
                                 \/ GoesOn(r, "session") \/ GoesOn(r, "id"),
             request[r].op = "create" => request'[r].at \in {"save", "undo"},
             request[r].op \in Changes => request'[r].at = "save",
             request[r].op = "delete" => request'[r].at \in {"agent", "row"},
             request[r].op = "turn" => request'[r].at \in {"session", "id"}, request[r].op # "none"
      PROVE  request' \in [Requests -> RequestShapes] /\ \A q \in Requests : Placed(q)'
  BY <1>0, <1>1 DEF GoesOn, OneMoves, Placed
<1>2. ASSUME NEW r \in Requests, Leaves(r)
      PROVE  request' \in [Requests -> RequestShapes] /\ \A q \in Requests : Placed(q)'
  BY <1>0, <1>2 DEF Leaves, OneMoves, Placed, Changes
<1>3. ASSUME NEW r \in Requests, NEW op \in {"create", "delete", "turn"} \union Changes, NEW a \in AgentIds,
             NEW f \in Functions \union {"none"}, NEW c \in AgentChats \union {"none"}, BeginChange(r, op, a, f, c),
             op \in {"add", "drop"} => f \in Functions, op = "turn" => c \in AgentChats
      PROVE  NativeShape' /\ \A q \in Requests : Placed(q)'
  <2>1. Begins(r, op, a, f, c) /\ made' \in Nat /\ overlapped' \in BOOLEAN
    BY <1>0, <1>3, BeginsFields
  <2>2. NativeShape'
    BY <1>0, <2>1 DEF NativeShape, Begins, OneMoves, localVars, remoteVars
  <2>3. \A q \in Requests : Placed(q)'
    BY <1>0, <1>3, <2>1 DEF Begins, OneMoves, Placed, Changes
  <2>4. QED
    BY <2>2, <2>3
<1>4. ASSUME NEW r \in Requests, ProviderRefuses(r) \/ PushToNone(r) \/ RequestDies(r)
      PROVE  NativeShape' /\ \A q \in Requests : Placed(q)'
  <2>1. Leaves(r)
    BY <1>0, <1>4, LeavesFields DEF ProviderRefuses, PushToNone, RequestDies
  <2>2. QED
    BY <1>0, <1>2, <1>4, <2>1 DEF NativeShape, ProviderRefuses, PushToNone, RequestDies, localVars, remoteVars, historyVars
<1>5. ASSUME NEW r \in Requests, CreateRemote(r)
      PROVE  NativeShape' /\ \A q \in Requests : Placed(q)'
  <2>1. GoesOn(r, "save") /\ request[r].op = "create"
    BY <1>0, <1>5, GoesOnFields DEF CreateRemote, At
  <2>2. request' \in [Requests -> RequestShapes] /\ \A q \in Requests : Placed(q)'
    BY <1>1, <2>1 DEF GoesOn, Changes
  <2>3. QED
    BY <1>0, <1>5, <2>2 DEF NativeShape, CreateRemote, localVars, historyVars
<1>6. ASSUME NEW r \in Requests, CreateRow(r)
      PROVE  NativeShape' /\ \A q \in Requests : Placed(q)'
  <2>1. (Leaves(r) \/ GoesOn(r, "undo")) /\ request[r].op = "create"
    BY <1>0, <1>6, GoesOnFields, LeavesFields DEF CreateRow, At
  <2>2. request' \in [Requests -> RequestShapes] /\ \A q \in Requests : Placed(q)'
    BY <1>1, <1>2, <2>1 DEF GoesOn, Changes
  <2>3. QED
    BY <1>0, <1>6, <2>2 DEF NativeShape, CreateRow, remoteVars
<1>7. ASSUME NEW r \in Requests, UndoCreate(r)
      PROVE  NativeShape' /\ \A q \in Requests : Placed(q)'
  <2>1. Leaves(r)
    BY <1>0, <1>7, LeavesFields DEF UndoCreate
  <2>2. QED
    BY <1>0, <1>2, <1>7, <2>1 DEF NativeShape, UndoCreate, localVars
<1>8. ASSUME NEW r \in Requests, ReadFunctions(r)
      PROVE  NativeShape' /\ \A q \in Requests : Placed(q)'
  <2>1. request' \in [Requests -> RequestShapes] /\ \A q \in Requests : Placed(q)'
    <3>1. CASE End(r)
      BY <1>0, <1>2, <3>1, LeavesFields
    <3>2. CASE ~ End(r)
      <4> DEFINE q == [request[r] EXCEPT !.read = saved[request[r].agent], !.at = "push"]
      <4>1. request' = [request EXCEPT ![r] = q] /\ request[r].op \in Changes
        BY <1>8, <3>2 DEF ReadFunctions, Changes
      <4>2. request[r].agent \in AgentIds
        BY <1>0, <4>1 DEF Placed, Changes
      <4>3. q \in RequestShapes /\ q.op = request[r].op /\ q.agent = request[r].agent /\ q.fn = request[r].fn /\ q.at = "push"
        BY <1>0, <4>2 DEF RequestShapes, NativeShape
      <4> HIDE DEF q
      <4>4. request' \in [Requests -> RequestShapes] /\ request'[r] = q /\ \A p \in Requests : p # r => request'[p] = request[p]
        BY <1>0, <4>1, <4>3 DEF NativeShape
      <4>5. QED
        BY <1>0, <4>1, <4>2, <4>3, <4>4 DEF Placed, Changes
    <3>3. QED
      BY <3>1, <3>2
  <2>2. QED
    BY <1>0, <1>8, <2>1 DEF NativeShape, ReadFunctions, localVars, remoteVars, historyVars
<1>9. ASSUME NEW r \in Requests, PushTools(r)
      PROVE  NativeShape' /\ \A q \in Requests : Placed(q)'
  <2>1. GoesOn(r, "save") /\ request[r].op \in Changes
    BY <1>0, <1>9, GoesOnFields DEF PushTools, Placed, RequestShapes, NoRequest
  <2>2. request' \in [Requests -> RequestShapes] /\ \A q \in Requests : Placed(q)'
    BY <1>1, <2>1 DEF GoesOn, Changes
  <2>3. Wanted(request[r]) \subseteq Functions
    BY <1>0, <2>1 DEF Wanted, Placed, RequestShapes, Changes
  <2>4. tools' \in [AgentIds -> SUBSET Functions]
    BY <1>0, <1>9, <2>3 DEF NativeShape, PushTools
  <2>5. QED
    BY <1>0, <1>9, <2>2, <2>4 DEF NativeShape, PushTools, localVars, historyVars
<1>10. ASSUME NEW r \in Requests, SaveFunctions(r)
      PROVE  NativeShape' /\ \A q \in Requests : Placed(q)'
  <2>1. Leaves(r) /\ request[r].op \in Changes
    BY <1>0, <1>10, LeavesFields DEF SaveFunctions, Changes
  <2>2. saved' \in [AgentIds -> SUBSET Functions]
    BY <1>0, <1>10, <2>1 DEF NativeShape, SaveFunctions, Placed, Changes
  <2>3. QED
    BY <1>0, <1>2, <1>10, <2>1, <2>2 DEF NativeShape, SaveFunctions, remoteVars
<1>11. ASSUME NEW r \in Requests, RemoveSessions(r)
      PROVE  NativeShape' /\ \A q \in Requests : Placed(q)'
  <2>1. GoesOn(r, "agent") /\ request[r].op = "delete"
    BY <1>0, <1>11, GoesOnFields DEF RemoveSessions, At
  <2>2. request' \in [Requests -> RequestShapes] /\ \A q \in Requests : Placed(q)'
    BY <1>1, <2>1 DEF GoesOn, Changes
  <2>3. remoteSession' \in [AgentChats -> BOOLEAN]
    <3>1. CASE UNCHANGED remoteSession
      BY <1>0, <3>1 DEF NativeShape
    <3>2. CASE ~ UNCHANGED remoteSession
      <4>1. remoteSession' = [c \in AgentChats |-> remoteSession[c] /\ ~(agentChat[c] = request[r].agent /\ remoteId[c])]
        BY <1>11, <3>2 DEF RemoveSessions
      <4>2. \A c \in AgentChats : (remoteSession[c] /\ ~(agentChat[c] = request[r].agent /\ remoteId[c])) \in BOOLEAN
        OBVIOUS
      <4>3. QED
        BY <4>1, <4>2, Zenon
    <3>3. QED
      BY <3>1, <3>2
  <2>4. QED
    BY <1>0, <1>11, <2>2, <2>3 DEF NativeShape, RemoveSessions, localVars
<1>12. ASSUME NEW r \in Requests, RemoveAgent(r)
      PROVE  NativeShape' /\ \A q \in Requests : Placed(q)'
  <2>1. GoesOn(r, "row") /\ request[r].op = "delete"
    BY <1>0, <1>12, GoesOnFields DEF RemoveAgent, At
  <2>2. request' \in [Requests -> RequestShapes] /\ \A q \in Requests : Placed(q)'
    BY <1>1, <2>1 DEF GoesOn, Changes
  <2>3. QED
    BY <1>0, <1>12, <2>2 DEF NativeShape, RemoveAgent, localVars
<1>13. ASSUME NEW r \in Requests, DeleteRow(r)
      PROVE  NativeShape' /\ \A q \in Requests : Placed(q)'
  <2>1. Leaves(r)
    BY <1>0, <1>13, LeavesFields DEF DeleteRow
  <2>2. QED
    BY <1>0, <1>2, <1>13, <2>1 DEF NativeShape, DeleteRow, remoteVars, historyVars
<1>14. ASSUME NEW r \in Requests, AttachSession(r)
      PROVE  NativeShape' /\ \A q \in Requests : Placed(q)'
  <2>1. (Leaves(r) \/ GoesOn(r, "session")) /\ request[r].op = "turn"
    BY <1>0, <1>14, GoesOnFields, LeavesFields DEF AttachSession, At
  <2>2. request' \in [Requests -> RequestShapes] /\ \A q \in Requests : Placed(q)'
    BY <1>1, <1>2, <2>1 DEF GoesOn, Changes
  <2>3. agentChat' \in [AgentChats -> AgentIds \union {"none"}]
    BY <1>0, <1>14, <2>1 DEF NativeShape, AttachSession, Placed
  <2>4. QED
    BY <1>0, <1>14, <2>2, <2>3 DEF NativeShape, AttachSession, remoteVars, historyVars
<1>15. ASSUME NEW r \in Requests, CreateRemoteSession(r)
      PROVE  NativeShape' /\ \A q \in Requests : Placed(q)'
  <2>1. (Leaves(r) \/ GoesOn(r, "id")) /\ request[r].op = "turn"
    BY <1>0, <1>15, GoesOnFields, LeavesFields DEF CreateRemoteSession, At
  <2>2. request' \in [Requests -> RequestShapes] /\ \A q \in Requests : Placed(q)'
    BY <1>1, <1>2, <2>1 DEF GoesOn, Changes
  <2>3. QED
    BY <1>0, <1>15, <2>2 DEF NativeShape, CreateRemoteSession, localVars, historyVars
<1>16. ASSUME NEW r \in Requests, SetRemoteSession(r)
      PROVE  NativeShape' /\ \A q \in Requests : Placed(q)'
  <2>1. Leaves(r)
    BY <1>0, <1>16, LeavesFields DEF SetRemoteSession
  <2>2. QED
    BY <1>0, <1>2, <1>16, <2>1 DEF NativeShape, SetRemoteSession, remoteVars, historyVars
<1>17. CASE UNCHANGED nativeVars
  BY <1>0, <1>17 DEF NativeShape, Placed, nativeVars
<1>18. QED
  <2>1. ASSUME NEW r \in Requests, NEW a \in AgentIds, NEW op \in {"create", "update", "delete"},
               BeginChange(r, op, a, "none", "none")
        PROVE  NativeShape' /\ \A q \in Requests : Placed(q)'
    BY <1>3, <2>1 DEF Changes
  <2>2. ASSUME NEW r \in Requests, NEW a \in AgentIds, NEW f \in Functions, NEW op \in {"add", "drop"},
               BeginChange(r, op, a, f, "none")
        PROVE  NativeShape' /\ \A q \in Requests : Placed(q)'
    BY <1>3, <2>2 DEF Changes
  <2>3. ASSUME NEW r \in Requests, NEW a \in AgentIds, NEW c \in AgentChats, BeginChange(r, "turn", a, "none", c)
        PROVE  NativeShape' /\ \A q \in Requests : Placed(q)'
    BY <1>3, <2>3 DEF Changes
  <2>4. QED
    BY <1>4, <1>5, <1>6, <1>7, <1>8, <1>9, <1>10, <1>11, <1>12, <1>13, <1>14, <1>15, <1>16, <1>17, <2>1, <2>2, <2>3
       DEF NativeNext

-----------------------------------------------------------------------------
\* What a request does to its own agent disturbs no other.
Apart(r, a) ==
  /\ OneMoves(r) /\ request[r].op # "none" /\ request[r].agent = a
  /\ request'[r].op = "none" \/ (request'[r].op = request[r].op /\ request'[r].agent = a)
  /\ \A b \in AgentIds : b # a => /\ agentRow'[b] = agentRow[b] /\ saved'[b] = saved[b]
                                  /\ tools'[b] = tools[b] /\ remoteAgent'[b] = remoteAgent[b]
  /\ \A c \in AgentChats : /\ agentChat'[c] = agentChat[c] \/ {agentChat[c], agentChat'[c]} \subseteq {a, "none"}
                           /\ remoteSession'[c] => remoteSession[c] \/ agentChat'[c] = a
  /\ providerFaults' = 0 => providerFaults = 0

\* A request about another agent is where it was, and right about it.
LEMMA OthersInStep ==
  ASSUME NativeInv, Undisturbed, NEW r \in Requests, NEW a \in AgentIds, Apart(r, a), NEW q \in Requests, q # r
  PROVE  InStep(q)'
<1>0. InStep(q) /\ Placed(q) /\ Sole /\ NativeShape /\ request'[q] = request[q]
  BY DEF NativeInv, Apart, OneMoves
<1>1. CASE request[q].op = "none"
  BY <1>0, <1>1 DEF InStep, Changes
<1>2. CASE request[q].op # "none"
  <2> DEFINE b == request[q].agent
  <2>1. b \in AgentIds /\ b # a /\ b # "none"
    BY <1>0, <1>2, NativeAssumption DEF Placed, Sole, About, Apart
  <2>2. agentRow'[b] = agentRow[b] /\ saved'[b] = saved[b] /\ tools'[b] = tools[b] /\ remoteAgent'[b] = remoteAgent[b]
    BY <2>1 DEF Apart
  <2>3. \A c \in AgentChats : agentChat'[c] = b <=> agentChat[c] = b
    BY <2>1 DEF Apart
  <2>4. \A c \in AgentChats : agentChat'[c] = b /\ remoteSession'[c] => remoteSession[c]
    BY <2>1 DEF Apart
  <2>5. request[q].op = "turn" => request[q].chat \in AgentChats
    BY <1>0 DEF Placed
  <2>6. providerFaults' = 0 => providerFaults = 0
    BY DEF Apart
  <2> HIDE DEF b
  <2>7. QED
    BY <1>0, <2>2, <2>3, <2>4, <2>5, <2>6 DEF InStep, b, Changes
<1>3. QED
  BY <1>1, <1>2

\* Another agent is kept as it was.
LEMMA OtherAgentsKept ==
  ASSUME NativeInv, Undisturbed, NEW r \in Requests, NEW a \in AgentIds, Apart(r, a), NEW b \in AgentIds, b # a
  PROVE  AgentKept(b)'
<1>0. AgentKept(b)
  BY DEF NativeInv
<1>1. agentRow'[b] = agentRow[b] /\ saved'[b] = saved[b] /\ tools'[b] = tools[b] /\ remoteAgent'[b] = remoteAgent[b]
  BY DEF Apart
<1>2. \A q \in Requests : (Deleting(q, b)' <=> Deleting(q, b)) /\ (Saving(q, b)' <=> Saving(q, b))
  BY DEF Apart, OneMoves, Deleting, Saving, About, At, Changes
<1>3. providerFaults' = 0 => providerFaults = 0
  BY DEF Apart
<1>4. QED
  BY <1>0, <1>1, <1>2, <1>3 DEF AgentKept

\* So is a chat, when no session is being made or kept.
LEMMA ChatsStay ==
  ASSUME NativeInv, Undisturbed, NEW r \in Requests, OneMoves(r), ~ At(r, "turn", "id"),
         UNCHANGED <<agentChat, remoteId, remoteSession>>, providerFaults' = 0 => providerFaults = 0, NEW c \in AgentChats
  PROVE  ChatKept(c)'
<1>0. ChatKept(c)
  BY DEF NativeInv
<1>1. \A q \in Requests : At(q, "turn", "id") => request'[q] = request[q]
  BY DEF OneMoves
<1>2. QED
  BY <1>0, <1>1 DEF ChatKept, At

\* It is enough to look at the request, its agent and the chats.
LEMMA OwnPartKept ==
  ASSUME NativeInv, Undisturbed, NEW r \in Requests, NEW a \in AgentIds, Apart(r, a),
         InStep(r)', AgentKept(a)', \A c \in AgentChats : ChatKept(c)'
  PROVE  Sole' /\ (\A q \in Requests : InStep(q)') /\ (\A b \in AgentIds : AgentKept(b)') /\ \A c \in AgentChats : ChatKept(c)'
<1>1. Sole'
  BY SoleKept DEF NativeInv, Apart
<1>2. QED
  BY <1>1, OthersInStep, OtherAgentsKept

\* The part of the invariant that holds while nothing disturbs.
NativeCore ==
  Sole /\ (\A q \in Requests : InStep(q)) /\ (\A b \in AgentIds : AgentKept(b)) /\ \A c \in AgentChats : ChatKept(c)

\* A request that begins alone with its agent finds the two sides equal.
LEMMA BeginKeepsCore ==
  ASSUME NativeInv, Undisturbed, NEW r \in Requests, NEW op \in {"create", "delete", "turn"} \union Changes,
         NEW a \in AgentIds, NEW f, NEW c, Begins(r, op, a, f, c), ~ overlapped'
  PROVE  NativeCore'
<1>0. Sole /\ (\A q \in Requests : InStep(q)) /\ (\A b \in AgentIds : AgentKept(b)) /\ \A x \in AgentChats : ChatKept(x)
  BY DEF NativeInv
<1>1. \A q \in Requests : request[q].agent # a
  BY DEF Begins
<1>2. \A q \in Requests : q # r => request'[q] = request[q]
  BY DEF Begins, OneMoves
<1>3. Sole'
  BY <1>0, <1>1, <1>2 DEF Sole, About, Begins
<1>4. \A q \in Requests : InStep(q)'
  BY <1>0, <1>2 DEF InStep, Begins, localVars, remoteVars, Changes
<1>5. \A b \in AgentIds, q \in Requests : (Deleting(q, b) => Deleting(q, b)') /\ (Saving(q, b) => Saving(q, b)')
  BY <1>2 DEF Begins, Deleting, Saving, About, At
<1>6. \A b \in AgentIds : AgentKept(b)'
  BY <1>0, <1>5 DEF AgentKept, Begins, localVars, remoteVars
<1>7. \A q \in Requests, x \in AgentChats :
        At(q, "turn", "id") /\ request[q].chat = x => (At(q, "turn", "id") /\ request[q].chat = x)'
  BY <1>2 DEF Begins, At
<1>8. \A x \in AgentChats : ChatKept(x)'
  BY <1>0, <1>7 DEF ChatKept, Begins, localVars, remoteVars
<1>9. QED
  BY <1>3, <1>4, <1>6, <1>8 DEF NativeCore

\* What an undisturbed request does next keeps all of it.
LEMMA RequestKeepsCore ==
  ASSUME NativeInv, Undisturbed, Undisturbed', NEW r \in Requests,
         \/ ProviderRefuses(r) \/ CreateRemote(r) \/ CreateRow(r) \/ UndoCreate(r) \/ ReadFunctions(r)
         \/ PushTools(r) \/ PushToNone(r) \/ SaveFunctions(r) \/ RemoveSessions(r) \/ RemoveAgent(r) \/ DeleteRow(r)
         \/ AttachSession(r) \/ CreateRemoteSession(r) \/ SetRemoteSession(r) \/ RequestDies(r)
  PROVE  NativeCore'
<1>0. /\ NativeShape /\ Placed(r) /\ Sole /\ (\A q \in Requests : InStep(q)) /\ request[r] \in RequestShapes
      /\ (\A b \in AgentIds : AgentKept(b)) /\ \A x \in AgentChats : ChatKept(x)
  BY DEF NativeInv, NativeShape
<1>1. request[r].op # "none"
  BY <1>0 DEF ProviderRefuses, CreateRemote, CreateRow, UndoCreate, ReadFunctions, PushTools, PushToNone, SaveFunctions,
              RemoveSessions, RemoveAgent, DeleteRow, AttachSession, CreateRemoteSession, SetRemoteSession, RequestDies,
              At, Placed, NoRequest, Changes
<1>2. PICK a \in AgentIds : a = request[r].agent /\ a # "none" /\ InStep(r) /\ AgentKept(a)
  BY <1>0, <1>1, NativeAssumption DEF Placed
<1>3. \A q \in Requests, b \in AgentIds : Deleting(q, b) /\ b = a => q = r
  BY <1>0, <1>1, <1>2 DEF Sole, About, Deleting
<1>4. \A q \in Requests, b \in AgentIds : Saving(q, b) /\ b = a => q = r
  BY <1>0, <1>1, <1>2 DEF Sole, About, Saving
<1>5. providerFaults \in Nat /\ storeFaults \in Nat /\ storeFaults = 0 /\ storeFaults' = 0
  BY <1>0 DEF NativeShape, Undisturbed
<1>6. ASSUME Apart(r, a), InStep(r)', AgentKept(a)', \A c \in AgentChats : ChatKept(c)' PROVE NativeCore'
  <2>1. Sole' /\ (\A q \in Requests : InStep(q)') /\ (\A b \in AgentIds : AgentKept(b)') /\ \A c \in AgentChats : ChatKept(c)'
    BY <1>6, OwnPartKept
  <2>2. QED
    BY <2>1 DEF NativeCore
<1>7. CASE ProviderRefuses(r)
  <2>1. Leaves(r) /\ UNCHANGED localVars /\ UNCHANGED remoteVars /\ providerFaults' = providerFaults + 1
    BY <1>0, <1>7, LeavesFields DEF ProviderRefuses
  <2>2. Apart(r, a) /\ InStep(r)'
    BY <1>1, <1>2, <1>5, <2>1 DEF Apart, Leaves, localVars, remoteVars, InStep, Changes
  <2>3. ~ At(r, "turn", "id") /\ ~ Deleting(r, a) /\ ~ Saving(r, a)
    BY <1>0, <1>7 DEF ProviderRefuses, At, Deleting, Saving, Placed, Changes
  <2>4. AgentKept(a)'
    BY <1>2, <1>3, <1>4, <1>5, <2>1, <2>3 DEF AgentKept, localVars, remoteVars
  <2>5. \A c \in AgentChats : ChatKept(c)'
    BY <1>5, <2>1 DEF ChatKept
  <2>6. QED
    BY <1>6, <2>2, <2>4, <2>5
<1>8. CASE CreateRemote(r)
  <2>1. GoesOn(r, "save") /\ At(r, "create", "begin") /\ UNCHANGED <<localVars, tools, remoteSession, providerFaults>>
        /\ remoteAgent' = [remoteAgent EXCEPT ![a] = "there"]
    BY <1>0, <1>2, <1>8, GoesOnFields DEF CreateRemote, historyVars
  <2>2. remoteAgent'[a] = "there" /\ \A b \in AgentIds : b # a => remoteAgent'[b] = remoteAgent[b]
    BY <1>0, <1>2, <2>1 DEF NativeShape
  <2>3. Apart(r, a)
    BY <1>1, <1>2, <1>5, <2>1, <2>2 DEF Apart, GoesOn, localVars
  <2>4. InStep(r)'
    BY <1>2, <2>1, <2>2 DEF InStep, GoesOn, localVars, At, Changes
  <2>5. agentRow[a] = "none"
    BY <1>2, <2>1 DEF InStep, At
  <2>6. AgentKept(a)'
    BY <1>2, <2>1, <2>5 DEF AgentKept, localVars
  <2>7. \A c \in AgentChats : ChatKept(c)'
    BY <2>1, ChatsStay DEF GoesOn, At, localVars
  <2>8. QED
    BY <1>6, <2>3, <2>4, <2>6, <2>7
<1>9. CASE CreateRow(r)
  <2>1. Leaves(r) /\ At(r, "create", "save") /\ UNCHANGED <<saved, agentChat, remoteId, remoteVars, providerFaults>>
        /\ agentRow' = [agentRow EXCEPT ![a] = "saved"]
    BY <1>0, <1>2, <1>5, <1>9, LeavesFields DEF CreateRow
  <2>2. agentRow'[a] = "saved" /\ \A b \in AgentIds : b # a => agentRow'[b] = agentRow[b]
    BY <1>0, <1>2, <2>1 DEF NativeShape
  <2>3. Apart(r, a) /\ InStep(r)'
    BY <1>1, <1>2, <1>5, <2>1, <2>2 DEF Apart, Leaves, remoteVars, InStep, Changes
  <2>4. agentRow[a] = "none" /\ remoteAgent[a] = "there"
    BY <1>2, <2>1 DEF InStep, At
  <2>5. AgentKept(a)'
    BY <1>2, <2>1, <2>2, <2>4 DEF AgentKept, remoteVars
  <2>6. \A c \in AgentChats : ChatKept(c)'
    BY <2>1, ChatsStay DEF Leaves, At, remoteVars
  <2>7. QED
    BY <1>6, <2>3, <2>5, <2>6
<1>10. CASE UndoCreate(r)
  BY <1>2, <1>10 DEF UndoCreate, At, InStep
<1>11. CASE ReadFunctions(r)
  <2>1. /\ request[r].op \in Changes /\ request[r].at = "begin"
        /\ UNCHANGED localVars /\ UNCHANGED remoteVars /\ UNCHANGED providerFaults
    BY <1>11 DEF ReadFunctions, Changes, historyVars
  <2>2. AgentKept(a)'
    <3>1. ~ Deleting(r, a) /\ ~ Saving(r, a)
      BY <2>1 DEF Deleting, Saving, At
    <3>2. QED
      BY <1>2, <1>3, <1>4, <2>1, <3>1 DEF AgentKept, localVars, remoteVars
  <2>3. CASE End(r)
    <3>1. Leaves(r)
      BY <1>0, <2>3, LeavesFields
    <3>2. Apart(r, a) /\ InStep(r)'
      BY <1>1, <1>2, <1>5, <2>1, <3>1 DEF Apart, Leaves, localVars, remoteVars, InStep, Changes
    <3>3. \A c \in AgentChats : ChatKept(c)'
      BY <2>1, <3>1, ChatsStay DEF Leaves, At, localVars, remoteVars
    <3>4. QED
      BY <1>6, <2>2, <3>2, <3>3
  <2>4. CASE ~ End(r)
    <3> DEFINE q == [request[r] EXCEPT !.read = saved[a], !.at = "push"]
    <3>1. request' = [request EXCEPT ![r] = q]
      BY <1>2, <1>11, <2>4 DEF ReadFunctions
    <3>2. /\ q \in RequestShapes /\ q.op = request[r].op /\ q.agent = a /\ q.at = "push" /\ q.read = saved[a]
      BY <1>0, <1>2 DEF RequestShapes, NativeShape
    <3> HIDE DEF q
    <3>3. OneMoves(r) /\ request'[r] = q
      BY <1>0, <3>1, <3>2 DEF OneMoves, NativeShape
    <3>4. Apart(r, a)
      BY <1>1, <1>2, <1>5, <2>1, <3>2, <3>3 DEF Apart, localVars, remoteVars
    <3>5. agentRow[a] = "saved"
      BY <1>2, <2>1 DEF InStep
    <3>6. InStep(r)'
      BY <2>1, <3>2, <3>3, <3>5 DEF InStep, localVars, Changes
    <3>7. \A c \in AgentChats : ChatKept(c)'
      <4>1. ~ At(r, "turn", "id")
        BY <2>1 DEF At, Changes
      <4>2. QED
        BY <2>1, <3>3, <4>1, ChatsStay DEF localVars, remoteVars
    <3>8. QED
      BY <1>6, <2>2, <3>4, <3>6, <3>7
  <2>5. QED
    BY <2>3, <2>4
<1>12. CASE PushTools(r)
  <2>1. request[r].op \in Changes /\ request[r].at = "push"
    BY <1>0, <1>12 DEF PushTools, Placed, NoRequest, RequestShapes, Changes
  <2>2. GoesOn(r, "save") /\ UNCHANGED <<localVars, remoteAgent, remoteSession, providerFaults>>
        /\ tools' = [tools EXCEPT ![a] = Wanted(request[r])]
    BY <1>0, <1>2, <1>12, GoesOnFields DEF PushTools, historyVars
  <2>3. tools'[a] = Wanted(request[r]) /\ \A b \in AgentIds : b # a => tools'[b] = tools[b]
    BY <1>0, <1>2, <2>2 DEF NativeShape
  <2>4. Apart(r, a)
    BY <1>1, <1>2, <1>5, <2>2, <2>3 DEF Apart, GoesOn, localVars
  <2>5. Wanted(request'[r]) = Wanted(request[r])
    BY <2>2 DEF Wanted, GoesOn
  <2>6. agentRow[a] = "saved" /\ request[r].read = saved[a]
    BY <1>2, <2>1 DEF InStep
  <2>7. request'[r].op \in Changes /\ request'[r].agent = a /\ request'[r].read = saved[a] /\ request'[r].at = "save"
        /\ agentRow'[a] = "saved" /\ saved'[a] = saved[a]
    BY <1>2, <2>1, <2>2, <2>6 DEF GoesOn, localVars
  <2>8. InStep(r)'
    BY <2>3, <2>5, <2>7 DEF InStep, Changes
  <2>9. AgentKept(a)'
    <3>1. Saving(r, a)' /\ ~ Deleting(r, a)
      BY <1>1, <2>1, <2>7 DEF Saving, Deleting, About, At, Changes
    <3>2. remoteAgent'[a] = "there"
      BY <1>2, <1>3, <2>2, <2>6, <3>1 DEF AgentKept
    <3>3. QED
      BY <2>7, <3>1, <3>2 DEF AgentKept
  <2>10. \A c \in AgentChats : ChatKept(c)'
    BY <2>1, <2>2, ChatsStay DEF GoesOn, At, Changes, localVars
  <2>11. QED
    BY <1>6, <2>4, <2>8, <2>9, <2>10
<1>13. CASE PushToNone(r)
  <2>1. request[r].op \in Changes /\ request[r].at = "push"
    BY <1>0, <1>13 DEF PushToNone, Placed, NoRequest, RequestShapes, Changes
  <2>2. Leaves(r) /\ UNCHANGED localVars /\ UNCHANGED remoteVars /\ UNCHANGED providerFaults
    BY <1>0, <1>13, LeavesFields DEF PushToNone, historyVars
  <2>3. Apart(r, a) /\ InStep(r)'
    BY <1>1, <1>2, <1>5, <2>2 DEF Apart, Leaves, localVars, remoteVars, InStep, Changes
  <2>4. ~ At(r, "turn", "id") /\ ~ Deleting(r, a) /\ ~ Saving(r, a)
    BY <2>1 DEF At, Deleting, Saving, Changes
  <2>5. AgentKept(a)'
    BY <1>2, <1>3, <1>4, <2>2, <2>4 DEF AgentKept, localVars, remoteVars
  <2>6. \A c \in AgentChats : ChatKept(c)'
    BY <2>2, <2>4, ChatsStay DEF Leaves, localVars, remoteVars
  <2>7. QED
    BY <1>6, <2>3, <2>5, <2>6
<1>14. CASE SaveFunctions(r)
  <2>1. request[r].op \in Changes /\ request[r].at = "save"
    BY <1>14 DEF SaveFunctions, Changes
  <2>2. agentRow[a] = "saved" /\ request[r].read = saved[a] /\ tools[a] = Wanted(request[r])
    BY <1>2, <2>1 DEF InStep
  <2>3. Leaves(r) /\ UNCHANGED <<agentRow, agentChat, remoteId, remoteVars, providerFaults>>
    BY <1>0, <1>14, LeavesFields DEF SaveFunctions
  <2>4. saved'[a] = tools[a] /\ \A b \in AgentIds : b # a => saved'[b] = saved[b]
    <3>1. saved' = [saved EXCEPT ![a] = tools[a]]
      <4>1. request[r].op = "add" => saved' = [saved EXCEPT ![a] = saved[a] \union {request[r].fn}]
        BY <1>2, <1>5, <1>14, <2>2 DEF SaveFunctions
      <4>2. request[r].op = "drop" => saved' = [saved EXCEPT ![a] = saved[a] \ {request[r].fn}]
        BY <1>2, <1>5, <1>14, <2>2 DEF SaveFunctions
      <4>3. request[r].op = "update" => saved' = [saved EXCEPT ![a] = saved[a]]
        BY <1>2, <1>5, <1>14, <2>2 DEF SaveFunctions
      <4>4. QED
        BY <2>1, <2>2, <4>1, <4>2, <4>3 DEF Wanted, Changes
    <3>2. QED
      BY <1>0, <3>1 DEF NativeShape
  <2>5. Apart(r, a) /\ InStep(r)'
    BY <1>1, <1>2, <1>5, <2>3, <2>4 DEF Apart, Leaves, remoteVars, InStep, Changes
  <2>6. AgentKept(a)'
    <3>1. ~ Deleting(r, a)
      BY <2>1 DEF Deleting, At, Changes
    <3>2. QED
      BY <1>2, <1>3, <2>2, <2>3, <2>4, <3>1 DEF AgentKept, remoteVars
  <2>7. \A c \in AgentChats : ChatKept(c)'
    BY <2>1, <2>3, ChatsStay DEF Leaves, At, Changes, remoteVars
  <2>8. QED
    BY <1>6, <2>5, <2>6, <2>7
<1>15. CASE RemoveSessions(r)
  <2>1. GoesOn(r, "agent") /\ At(r, "delete", "begin") /\ UNCHANGED <<localVars, remoteAgent, tools>>
    BY <1>0, <1>15, GoesOnFields DEF RemoveSessions
  <2>2. \A c \in AgentChats : remoteSession'[c] => remoteSession[c]
    BY <1>15 DEF RemoveSessions
  <2>3. \/ providerFaults' = providerFaults + 1
        \/ /\ providerFaults' = providerFaults
           /\ \A c \in AgentChats : remoteSession'[c] => ~(agentChat[c] = a /\ remoteId[c])
    BY <1>2, <1>15 DEF RemoveSessions
  <2>4. Apart(r, a)
    BY <1>1, <1>2, <1>5, <2>1, <2>2, <2>3 DEF Apart, GoesOn, localVars
  <2>5. agentRow[a] = "saved"
    BY <1>2, <2>1 DEF InStep, At
  <2>6. ASSUME providerFaults' = 0, NEW c \in AgentChats, agentChat[c] = a, remoteSession'[c] PROVE FALSE
    <3>1. remoteSession[c] /\ ~ remoteId[c] /\ providerFaults = 0
      BY <1>5, <2>2, <2>3, <2>6
    <3>2. PICK q \in Requests : At(q, "turn", "id") /\ request[q].chat = c
      BY <1>0, <3>1 DEF ChatKept
    <3>3. request[q].agent = a /\ q # r
      <4>1. InStep(q)
        BY <1>0
      <4>2. agentChat[c] = request[q].agent
        BY <3>2, <4>1 DEF InStep, At
      <4>3. QED
        BY <2>1, <2>6, <3>2, <4>2 DEF At
    <3>4. QED
      BY <1>0, <1>1, <1>2, <3>2, <3>3 DEF Sole, About, At
  <2>7. InStep(r)'
    <3>1. request'[r].op = "delete" /\ request'[r].agent = a /\ request'[r].at = "agent" /\ agentRow'[a] = "saved"
          /\ agentChat' = agentChat
      BY <1>2, <2>1, <2>5 DEF GoesOn, At, localVars
    <3>2. QED
      BY <2>6, <3>1 DEF InStep, Changes
  <2>8. AgentKept(a)'
    <3>1. ~ Deleting(r, a) /\ ~ Saving(r, a)
      BY <2>1 DEF Deleting, Saving, At, Changes
    <3>2. QED
      BY <1>2, <1>3, <1>4, <2>1, <2>5, <3>1 DEF AgentKept, localVars
  <2>9. ASSUME NEW c \in AgentChats PROVE ChatKept(c)'
    <3>1. \A q \in Requests : At(q, "turn", "id") => request'[q] = request[q]
      BY <2>1 DEF GoesOn, OneMoves, At
    <3>2. providerFaults' = 0 /\ remoteSession'[c] => providerFaults = 0 /\ remoteSession[c]
      BY <1>5, <2>2, <2>3
    <3>3. ChatKept(c) /\ agentChat' = agentChat /\ remoteId' = remoteId
      BY <1>0, <2>1 DEF localVars
    <3>4. QED
      BY <3>1, <3>2, <3>3 DEF ChatKept, At
  <2>10. QED
    BY <1>6, <2>4, <2>7, <2>8, <2>9
<1>16. CASE RemoveAgent(r)
  <2>1. GoesOn(r, "row") /\ At(r, "delete", "agent") /\ UNCHANGED <<localVars, tools, remoteSession>>
    BY <1>0, <1>16, GoesOnFields DEF RemoveAgent
  <2>2. \/ providerFaults' = providerFaults + 1 /\ remoteAgent' = remoteAgent
        \/ providerFaults' = providerFaults /\ remoteAgent' = [remoteAgent EXCEPT ![a] = "removed"]
    BY <1>2, <1>16 DEF RemoveAgent
  <2>3. /\ \A b \in AgentIds : b # a => remoteAgent'[b] = remoteAgent[b]
        /\ providerFaults' = 0 => providerFaults = 0 /\ remoteAgent'[a] = "removed"
    BY <1>0, <1>2, <1>5, <2>2 DEF NativeShape
  <2>4. Apart(r, a)
    BY <1>1, <1>2, <2>1, <2>3 DEF Apart, GoesOn, localVars
  <2>5. agentRow[a] = "saved" /\ (providerFaults = 0 => \A c \in AgentChats : agentChat[c] = a => ~remoteSession[c])
    BY <1>2, <2>1 DEF InStep, At
  <2>6. request'[r].op = "delete" /\ request'[r].agent = a /\ request'[r].at = "row" /\ UNCHANGED <<agentRow, agentChat>>
    BY <1>2, <2>1 DEF GoesOn, At, localVars
  <2>7. InStep(r)'
    BY <2>1, <2>3, <2>5, <2>6 DEF InStep, Changes
  <2>8. AgentKept(a)'
    <3>1. Deleting(r, a)' /\ ~ Saving(r, a)
      BY <2>1, <2>6 DEF Deleting, Saving, About, At, Changes
    <3>2. QED
      BY <1>2, <1>4, <2>1, <2>5, <3>1 DEF AgentKept, localVars
  <2>9. \A c \in AgentChats : ChatKept(c)'
    BY <2>1, <2>3, ChatsStay DEF GoesOn, At, localVars
  <2>10. QED
    BY <1>6, <2>4, <2>7, <2>8, <2>9
<1>17. CASE DeleteRow(r)
  <2>1. Leaves(r) /\ At(r, "delete", "row") /\ UNCHANGED <<remoteId, remoteVars, providerFaults>>
    BY <1>0, <1>17, LeavesFields DEF DeleteRow, historyVars
  <2>2. agentRow' = [agentRow EXCEPT ![a] = "deleted"] /\ saved' = [saved EXCEPT ![a] = {}]
        /\ agentChat' = [c \in AgentChats |-> IF agentChat[c] = a THEN "none" ELSE agentChat[c]]
    BY <1>2, <1>17 DEF DeleteRow
  <2>3. agentRow'[a] = "deleted" /\ \A b \in AgentIds : b # a => agentRow'[b] = agentRow[b] /\ saved'[b] = saved[b]
    BY <1>0, <1>2, <2>2 DEF NativeShape
  <2>4. \A c \in AgentChats : agentChat'[c] = IF agentChat[c] = a THEN "none" ELSE agentChat[c]
    BY <2>2
  <2>5. Apart(r, a) /\ InStep(r)'
    BY <1>1, <1>2, <1>5, <2>1, <2>3, <2>4 DEF Apart, Leaves, remoteVars, InStep, Changes
  <2>6. providerFaults = 0 => /\ \A c \in AgentChats : agentChat[c] = a => ~remoteSession[c]
                              /\ remoteAgent[a] = "removed"
    BY <1>2, <2>1 DEF InStep, At
  <2>7. AgentKept(a)'
    BY <2>1, <2>3, <2>6 DEF AgentKept, remoteVars
  <2>8. ASSUME NEW c \in AgentChats PROVE ChatKept(c)'
    <3>1. \A q \in Requests : At(q, "turn", "id") => request'[q] = request[q]
      BY <2>1 DEF Leaves, OneMoves, At
    <3>2. ChatKept(c)
      BY <1>0
    <3>3. QED
      BY <2>1, <2>4, <2>6, <3>1, <3>2 DEF ChatKept, At, remoteVars
  <2>9. QED
    BY <1>6, <2>5, <2>7, <2>8
<1>18. CASE AttachSession(r)
  <2> DEFINE x == request[r].chat
  <2>1. /\ At(r, "turn", "begin") /\ UNCHANGED <<agentRow, saved, remoteId, remoteVars, providerFaults>> /\ x \in AgentChats
        /\ agentChat' = IF agentChat[x] = "none" /\ agentRow[a] = "saved" THEN [agentChat EXCEPT ![x] = a] ELSE agentChat
        /\ Leaves(r) \/ (GoesOn(r, "session") /\ agentChat'[x] = a)
    BY <1>0, <1>2, <1>18, LeavesFields, GoesOnFields DEF AttachSession, At, historyVars, Placed
  <2>2. \A c \in AgentChats : agentChat'[c] = agentChat[c] \/ (agentChat[c] = "none" /\ agentChat'[c] = a)
    BY <1>0, <2>1 DEF NativeShape
  <2>3. Apart(r, a)
    BY <1>1, <1>2, <2>1, <2>2 DEF Apart, Leaves, GoesOn, remoteVars
  <2>4. InStep(r)'
    <3>1. CASE Leaves(r)
      BY <3>1 DEF InStep, Leaves, Changes
    <3>2. CASE GoesOn(r, "session") /\ agentChat'[x] = a
      <4>1. request'[r].op = "turn" /\ request'[r].agent = a /\ request'[r].chat = x
        BY <1>2, <2>1, <3>2 DEF GoesOn, At
      <4>2. QED
        BY <3>2, <4>1 DEF InStep, Changes
    <3>3. QED
      BY <2>1, <3>1, <3>2
  <2>5. AgentKept(a)'
    <3>1. ~ Deleting(r, a) /\ ~ Saving(r, a)
      BY <2>1 DEF Deleting, Saving, At, Changes
    <3>2. \A q \in Requests : q # r => request'[q] = request[q]
      BY <2>3 DEF Apart, OneMoves
    <3>3. \A q \in Requests : (Deleting(q, a) => Deleting(q, a)') /\ (Saving(q, a) => Saving(q, a)')
      BY <3>1, <3>2 DEF Deleting, Saving, About, At
    <3>4. QED
      BY <1>2, <2>1, <3>3 DEF AgentKept, remoteVars
  <2>6. ASSUME NEW c \in AgentChats PROVE ChatKept(c)'
    <3>1. \A q \in Requests : At(q, "turn", "id") => request'[q] = request[q]
      BY <2>1, <2>3 DEF Apart, OneMoves, At
    <3>2. ChatKept(c)
      BY <1>0
    <3>3. QED
      BY <1>2, <2>1, <2>2, <3>1, <3>2 DEF ChatKept, At, remoteVars
  <2>7. QED
    BY <1>6, <2>3, <2>4, <2>5, <2>6
<1>19. CASE CreateRemoteSession(r)
  <2> DEFINE x == request[r].chat
  <2>1. /\ At(r, "turn", "session") /\ UNCHANGED <<localVars, remoteAgent, tools, providerFaults>> /\ x \in AgentChats
        /\ \/ remoteSession' = [remoteSession EXCEPT ![x] = TRUE] /\ GoesOn(r, "id")
           \/ Leaves(r) /\ remoteSession' = remoteSession
    BY <1>0, <1>2, <1>19, LeavesFields, GoesOnFields DEF CreateRemoteSession, At, historyVars, Placed
  <2>2. agentChat[x] = a
    BY <1>2, <2>1 DEF InStep, At
  <2>3. \A c \in AgentChats : remoteSession'[c] => remoteSession[c] \/ (c = x /\ GoesOn(r, "id"))
    BY <1>0, <2>1 DEF NativeShape
  <2>4. Apart(r, a)
    BY <1>1, <1>2, <2>1, <2>2, <2>3 DEF Apart, Leaves, GoesOn, localVars
  <2>5. InStep(r)'
    <3>1. CASE Leaves(r)
      BY <3>1 DEF InStep, Leaves, Changes
    <3>2. CASE GoesOn(r, "id")
      <4>1. request'[r].op = "turn" /\ request'[r].agent = a /\ request'[r].chat = x /\ agentChat'[x] = a
        BY <1>2, <2>1, <2>2, <3>2 DEF GoesOn, At, localVars
      <4>2. QED
        BY <4>1 DEF InStep, Changes
    <3>3. QED
      BY <2>1, <3>1, <3>2
  <2>6. AgentKept(a)'
    <3>1. ~ Deleting(r, a) /\ ~ Saving(r, a)
      BY <2>1 DEF Deleting, Saving, At, Changes
    <3>2. \A q \in Requests : q # r => request'[q] = request[q]
      BY <2>4 DEF Apart, OneMoves
    <3>3. \A q \in Requests : (Deleting(q, a) => Deleting(q, a)') /\ (Saving(q, a) => Saving(q, a)')
      BY <3>1, <3>2 DEF Deleting, Saving, About, At
    <3>4. QED
      BY <1>2, <2>1, <3>3 DEF AgentKept, localVars
  <2>7. ASSUME NEW c \in AgentChats PROVE ChatKept(c)'
    <3>1. \A q \in Requests : At(q, "turn", "id") => request'[q] = request[q]
      BY <2>1, <2>4 DEF Apart, OneMoves, At
    <3>2. ChatKept(c) /\ agentChat' = agentChat /\ remoteId' = remoteId
      BY <1>0, <2>1 DEF localVars
    <3>3. c = x /\ GoesOn(r, "id") => agentChat[c] \in AgentIds /\ (At(r, "turn", "id") /\ request[r].chat = c)'
      BY <1>2, <2>1, <2>2 DEF GoesOn, At
    <3>4. QED
      BY <2>1, <2>3, <3>1, <3>2, <3>3 DEF ChatKept, At
  <2>8. QED
    BY <1>6, <2>4, <2>5, <2>6, <2>7
<1>20. CASE SetRemoteSession(r)
  <2> DEFINE x == request[r].chat
  <2>1. /\ At(r, "turn", "id") /\ UNCHANGED <<agentRow, saved, agentChat, remoteVars, providerFaults>> /\ Leaves(r)
        /\ remoteId' = [remoteId EXCEPT ![x] = TRUE] /\ x \in AgentChats
    BY <1>0, <1>20, LeavesFields DEF SetRemoteSession, At, historyVars, Placed
  <2>2. remoteId'[x] = TRUE /\ \A c \in AgentChats : remoteId[c] => remoteId'[c]
    BY <1>0, <2>1 DEF NativeShape
  <2>3. Apart(r, a) /\ InStep(r)'
    BY <1>1, <1>2, <2>1 DEF Apart, Leaves, remoteVars, InStep, Changes
  <2>4. AgentKept(a)'
    <3>1. ~ Deleting(r, a) /\ ~ Saving(r, a)
      BY <2>1 DEF Deleting, Saving, At, Changes
    <3>2. QED
      BY <1>2, <1>3, <1>4, <2>1, <3>1 DEF AgentKept, remoteVars
  <2>5. ASSUME NEW c \in AgentChats PROVE ChatKept(c)'
    <3>1. \A q \in Requests : At(q, "turn", "id") => request'[q] = request[q] \/ request[q].chat = x
      BY <2>1 DEF Leaves, OneMoves, At
    <3>2. ChatKept(c)
      BY <1>0
    <3>3. QED
      BY <2>1, <2>2, <3>1, <3>2 DEF ChatKept, At, remoteVars
  <2>6. QED
    BY <1>6, <2>3, <2>4, <2>5
<1>21. CASE RequestDies(r)
  BY <1>5, <1>21 DEF RequestDies
<1>22. QED
  BY <1>7, <1>8, <1>9, <1>10, <1>11, <1>12, <1>13, <1>14, <1>15, <1>16, <1>17, <1>18, <1>19, <1>20, <1>21

-----------------------------------------------------------------------------
\* Every step keeps the invariant.
LEMMA NativeStep ==
  ASSUME NativeInv, [NativeNext]_nativeVars
  PROVE  NativeInv'
<1>1. NativeShape' /\ \A r \in Requests : Placed(r)'
  BY NativeShapeKept
<1>2. ASSUME Undisturbed' PROVE NativeCore'
  <2>1. Undisturbed
    BY <1>2, UndisturbedBefore
  <2>2. ~ overlapped'
    BY <1>2 DEF Undisturbed
  <2>3. ASSUME NEW r \in Requests, NEW op \in {"create", "delete", "turn"} \union Changes, NEW a \in AgentIds,
               NEW f \in Functions \union {"none"}, NEW c \in AgentChats \union {"none"}, BeginChange(r, op, a, f, c)
        PROVE  NativeCore'
    <3>1. Begins(r, op, a, f, c)
      BY <2>3, BeginsFields DEF NativeInv
    <3>2. QED
      BY <2>1, <2>2, <3>1, BeginKeepsCore
  <2>4. ASSUME NEW r \in Requests,
               \/ ProviderRefuses(r) \/ CreateRemote(r) \/ CreateRow(r) \/ UndoCreate(r) \/ ReadFunctions(r)
               \/ PushTools(r) \/ PushToNone(r) \/ SaveFunctions(r) \/ RemoveSessions(r) \/ RemoveAgent(r) \/ DeleteRow(r)
               \/ AttachSession(r) \/ CreateRemoteSession(r) \/ SetRemoteSession(r) \/ RequestDies(r)
        PROVE  NativeCore'
    BY <1>2, <2>1, <2>4, RequestKeepsCore
  <2>5. CASE UNCHANGED nativeVars
    <3>1. NativeCore
      BY <2>1 DEF NativeInv, NativeCore
    <3>2. QED
      BY <2>5, <3>1 DEF NativeCore, Sole, About, InStep, AgentKept, Deleting, Saving, At, ChatKept, nativeVars
  <2>6. ASSUME NEW r \in Requests, NEW a \in AgentIds, NEW op \in {"create", "update", "delete"},
               BeginChange(r, op, a, "none", "none")
        PROVE  NativeCore'
    BY <2>3, <2>6 DEF Changes
  <2>7. ASSUME NEW r \in Requests, NEW a \in AgentIds, NEW f \in Functions, NEW op \in {"add", "drop"},
               BeginChange(r, op, a, f, "none")
        PROVE  NativeCore'
    BY <2>3, <2>7 DEF Changes
  <2>8. ASSUME NEW r \in Requests, NEW a \in AgentIds, NEW c \in AgentChats, BeginChange(r, "turn", a, "none", c)
        PROVE  NativeCore'
    BY <2>3, <2>8
  <2>9. QED
    BY <2>4, <2>5, <2>6, <2>7, <2>8 DEF NativeNext
<1>3. QED
  BY <1>1, <1>2 DEF NativeInv, NativeCore

\* Nothing is there at the start.
LEMMA NativeStart ==
  NativeInit => NativeInv
<1> SUFFICES ASSUME NativeInit PROVE NativeInv
  OBVIOUS
<1>1. NoRequest \in RequestShapes /\ NoRequest.op = "none" /\ \A r \in Requests : request[r] = NoRequest
  BY DEF NativeInit, NoRequest, RequestShapes
<1>2. NativeShape
  BY <1>1 DEF NativeInit, NativeShape
<1>3. \A r \in Requests : Placed(r)
  BY <1>1 DEF Placed, Changes
<1>4. Sole /\ \A r \in Requests : InStep(r)
  BY <1>1 DEF Sole, About, InStep, Changes
<1>5. \A a \in AgentIds : AgentKept(a)
  BY DEF NativeInit, AgentKept
<1>6. \A c \in AgentChats : ChatKept(c)
  BY DEF NativeInit, ChatKept
<1>7. QED
  BY <1>2, <1>3, <1>4, <1>5, <1>6 DEF NativeInv

\* It holds always.
LEMMA NativeInvariant ==
  NativeSpec => []NativeInv
<1>1. NativeInit => NativeInv
  BY NativeStart
<1>2. NativeInv /\ [NativeNext]_nativeVars => NativeInv'
  BY NativeStep
<1>3. QED
  BY <1>1, <1>2, PTL DEF NativeSpec

\* Rows, tool lists, chats and requests keep the values the code gives them.
THEOREM NativeTypeCorrect ==
  NativeSpec => []NativeShape
<1>1. NativeInv => NativeShape
  BY DEF NativeInv
<1>2. QED
  BY <1>1, NativeInvariant, PTL

\* Between requests that neither overlapped nor failed here, the provider
\* holds the saved agents with their functions, and nothing of a deleted one.
THEOREM NativeProviderHoldsWhatIsSaved ==
  NativeSpec => []ProviderHoldsWhatIsSaved
<1>1. NativeInv => ProviderHoldsWhatIsSaved
  <2> SUFFICES ASSUME NativeInv, AtRest, Undisturbed, NEW a \in AgentIds
               PROVE  /\ agentRow[a] = "saved" => remoteAgent[a] = "there" /\ tools[a] = saved[a]
                      /\ providerFaults = 0 /\ agentRow[a] = "deleted" => remoteAgent[a] = "removed"
                      /\ \A c \in AgentChats : providerFaults = 0 /\ remoteSession[c] => agentChat[c] \in AgentIds
    BY DEF ProviderHoldsWhatIsSaved, Undisturbed
  <2>1. AgentKept(a) /\ \A c \in AgentChats : ChatKept(c)
    BY DEF NativeInv
  <2>2. \A r \in Requests : request[r].op = "none"
    BY DEF AtRest, NoRequest
  <2>3. \A r \in Requests : ~ Deleting(r, a) /\ ~ Saving(r, a)
    BY <2>2 DEF Deleting, Saving, About
  <2>4. QED
    BY <2>1, <2>3 DEF AgentKept, ChatKept
<1>2. QED
  BY <1>1, NativeInvariant, PTL

-----------------------------------------------------------------------------
(***************************************************************************)
(* Telegram's polls.  An adapter that works is the manager's or the one    *)
(* whose end it awaits, and never are there both; what Telegram forgets    *)
(* lies before some adapter's offset, and what lies there was dispatched.  *)
(***************************************************************************)
Listing(S, s) ==
  s \in [1..Cardinality(S) -> S] /\ ToSet(s) = S /\ \A j, k \in DOMAIN s : j < k => s[j] < s[k]

\* Every set of updates can be listed, oldest first.
LEMMA ListingExists ==
  ASSUME NEW N \in Nat, NEW S \in SUBSET (1..N)
  PROVE  \E s : Listing(S, s)
<1> DEFINE T == {m \in Nat : \A U \in SUBSET (1..m) : \E s : Listing(U, s)}
<1>1. 0 \in T
  <2>1. <<>> \in [1..0 -> {}] /\ DOMAIN <<>> = {} /\ ToSet(<<>>) = {} /\ Cardinality({}) = 0
    BY FS_EmptySet DEF ToSet
  <2>2. Listing({}, <<>>)
    BY <2>1 DEF Listing
  <2>3. \A U \in SUBSET (1..0) : U = {}
    OBVIOUS
  <2>4. QED
    BY <2>2, <2>3
<1>2. ASSUME NEW m \in Nat, m \in T, NEW U \in SUBSET (1..m + 1)
      PROVE  \E s : Listing(U, s)
  <2> DEFINE W == U \ {m + 1}
             k == Cardinality(W)
  <2>1. W \in SUBSET (1..m) /\ IsFiniteSet(W) /\ k \in Nat
    <3>1. IsFiniteSet(1..m) /\ W \in SUBSET (1..m)
      BY FS_Interval
    <3>2. IsFiniteSet(W)
      BY <3>1, FS_Subset
    <3>3. QED
      BY <3>1, <3>2, FS_CardinalityType
  <2>2. PICK w : Listing(W, w)
    BY <1>2, <2>1
  <2>3. CASE m + 1 \notin U
    <3>1. W = U
      BY <2>3
    <3>2. QED
      BY <2>2, <3>1
  <2>4. CASE m + 1 \in U
    <3>1. U = W \union {m + 1} /\ m + 1 \notin W
      BY <2>4
    <3>2. Cardinality(U) = k + 1
      BY <2>1, <3>1, FS_AddElement
    <3>3. w \in [1..k -> W] /\ DOMAIN w = 1..k /\ ToSet(w) = W /\ \A i, j \in 1..k : i < j => w[i] < w[j]
      BY <2>2 DEF Listing
    <3> DEFINE s == [j \in 1..k + 1 |-> IF j = k + 1 THEN m + 1 ELSE w[j]]
    <3> HIDE DEF W, k
    <3>4. s \in [1..k + 1 -> U] /\ s[k + 1] = m + 1 /\ \A j \in 1..k : s[j] = w[j]
      BY <2>1, <3>1, <3>3
    <3>5. DOMAIN s = 1..k + 1
      OBVIOUS
    <3> HIDE DEF s
    <3>6. ToSet(s) = U
      <4>1. \A x \in U : \E j \in 1..k + 1 : s[j] = x
        <5> SUFFICES ASSUME NEW x \in U PROVE \E j \in 1..k + 1 : s[j] = x
          OBVIOUS
        <5>1. CASE x = m + 1
          BY <2>1, <3>4, <5>1
        <5>2. CASE x \in W
          <6>1. PICK j \in 1..k : w[j] = x
            BY <3>3, <5>2 DEF ToSet
          <6>2. QED
            BY <2>1, <3>4, <6>1
        <5>3. QED
          BY <3>1, <5>1, <5>2
      <4>2. \A j \in 1..k + 1 : s[j] \in U
        BY <3>4
      <4>3. QED
        BY <3>5, <4>1, <4>2 DEF ToSet
    <3>7. \A i, j \in 1..k + 1 : i < j => s[i] < s[j]
      <4> SUFFICES ASSUME NEW i \in 1..k + 1, NEW j \in 1..k + 1, i < j PROVE s[i] < s[j]
        OBVIOUS
      <4>1. i \in 1..k
        BY <2>1
      <4>2. w[i] \in W
        BY <3>3, <4>1
      <4>3. s[i] = w[i] /\ w[i] \in 1..m
        BY <2>1, <3>4, <4>1, <4>2
      <4>4. CASE j = k + 1
        BY <3>4, <4>3, <4>4
      <4>5. CASE j # k + 1
        <5>1. j \in 1..k
          BY <2>1, <4>5
        <5>2. QED
          BY <3>3, <3>4, <4>1, <5>1
      <4>6. QED
        BY <4>4, <4>5
    <3>8. QED
      BY <3>2, <3>4, <3>5, <3>6, <3>7 DEF Listing
  <2>5. QED
    BY <2>3, <2>4
<1>3. Nat \subseteq T
  <2>1. ASSUME NEW m \in Nat, m \in T PROVE m + 1 \in T
    <3>1. \A U \in SUBSET (1..m + 1) : \E s : Listing(U, s)
      BY <1>2, <2>1
    <3>2. QED
      BY <3>1
  <2> HIDE DEF T
  <2>2. QED
    BY <1>1, <2>1, SetInduction
<1>4. QED
  BY <1>3

\* InOrder lists them all, and nothing else.
LEMMA InOrderListsAll ==
  ASSUME NEW N \in Nat, NEW S \in SUBSET (1..N)
  PROVE  InOrder(S) \in Seq(Nat) /\ ToSet(InOrder(S)) = S
<1>1. \E s \in [1..Cardinality(S) -> S] : ToSet(s) = S /\ \A j, k \in DOMAIN s : j < k => s[j] < s[k]
  BY ListingExists DEF Listing
<1>2. InOrder(S) \in [1..Cardinality(S) -> S] /\ ToSet(InOrder(S)) = S
  BY <1>1 DEF InOrder
<1>3. Cardinality(S) \in Nat
  <2>1. IsFiniteSet(1..N)
    BY FS_Interval
  <2>2. IsFiniteSet(S)
    BY <2>1, FS_Subset
  <2>3. QED
    BY <2>2, FS_CardinalityType
<1> DEFINE k == Cardinality(S)
           s == InOrder(S)
<1>4. k \in Nat /\ s \in [1..k -> S] /\ S \subseteq Nat
  BY <1>2, <1>3
<1> HIDE DEF k, s
<1>5. s \in Seq(Nat)
  <2>1. s \in [1..k -> Nat]
    BY <1>4
  <2>2. QED
    BY <1>4, <2>1
<1>6. QED
  BY <1>2, <1>5 DEF s

-----------------------------------------------------------------------------
Loops == {"none", "top", "me", "poll", "asked", "aborted", "backoff", "done"}
Settings == Tokens \union {"off"}

TelegramShape ==
  /\ botToken \in Settings /\ toApply \in Seq(Settings) /\ runningToken \in Settings
  /\ adapter \in Adapters \union {0} /\ stopping \in Adapters \union {0}
  /\ loop \in [Adapters -> Loops] /\ named \in [Adapters -> BOOLEAN] /\ running \in [Adapters -> BOOLEAN]
  /\ offset \in [Adapters -> Nat] /\ asking \in [Adapters -> Nat]
  /\ downloading \in [Adapters -> SUBSET Nat] /\ handed \in [Adapters -> Seq(Nat)]
  /\ updates \in Seq(BOOLEAN) /\ confirmed \in Nat /\ tokenSaves \in Nat /\ pollFaults \in Nat

\* Who works is known to the manager.
OneWorks ==
  /\ \A i \in Adapters : loop[i] \notin {"none", "done"} => i \in {adapter, stopping}
  /\ adapter # 0 => stopping = 0

Dispatched(n) == \E j \in Adapters : n \in downloading[j] \/ n \in ToSet(handed[j])

\* Nothing is skipped.
NoneSkipped ==
  /\ \A i \in Adapters : asking[i] <= offset[i] /\ offset[i] <= Len(updates) + 1
  /\ \A n \in 1..confirmed : \E i \in Adapters : offset[i] > n
  /\ pollFaults = 0 => \A i \in Adapters, n \in 1..Len(updates) : n < offset[i] => Dispatched(n)

TelegramInv == TelegramShape /\ OneWorks /\ NoneSkipped

\* What a poll brings, up to an update.
Brings(i, last) ==
  /\ last \in confirmed..Len(updates) /\ offset' \in [Adapters -> Nat] /\ offset[i] <= offset'[i]
  /\ offset'[i] \in {offset[i], last + 1} /\ \A j \in Adapters : j # i => offset'[j] = offset[j]
  /\ downloading' \in [Adapters -> SUBSET Nat] /\ handed' \in [Adapters -> Seq(Nat)]
  /\ \A j \in Adapters : downloading[j] \subseteq downloading'[j] /\ ToSet(handed[j]) \subseteq ToSet(handed'[j])
  /\ \A n \in confirmed + 1..last : n >= asking[i] => n \in downloading'[i] \/ n \in ToSet(handed'[i])

\* GotUpdates brings them.
LEMMA GotFields ==
  ASSUME TelegramShape, NEW i \in Adapters, GotUpdates(i)
  PROVE  \E last \in confirmed..Len(updates) : Brings(i, last)
<1>0. /\ offset \in [Adapters -> Nat] /\ asking \in [Adapters -> Nat] /\ downloading \in [Adapters -> SUBSET Nat]
      /\ handed \in [Adapters -> Seq(Nat)] /\ updates \in Seq(BOOLEAN) /\ confirmed \in Nat /\ Len(updates) \in Nat
  BY DEF TelegramShape
<1>1. PICK last \in confirmed..Len(updates) :
        LET got == {n \in confirmed + 1..last : n >= asking[i]} IN
        /\ offset' = [offset EXCEPT ![i] = IF got = {} THEN @ ELSE OffsetAfter(i, last)]
        /\ downloading' = [downloading EXCEPT ![i] = @ \union {n \in got : updates[n]}]
        /\ handed' = [handed EXCEPT ![i] = @ \o InOrder({n \in got : ~updates[n]})]
  BY DEF GotUpdates
<1> DEFINE got == {n \in confirmed + 1..last : n >= asking[i]}
           files == {n \in got : updates[n]}
           texts_ == {n \in got : ~updates[n]}
<1>2. last \in Nat /\ texts_ \in SUBSET (1..last) /\ files \subseteq Nat
  BY <1>0
<1>3. InOrder(texts_) \in Seq(Nat) /\ ToSet(InOrder(texts_)) = texts_
  BY <1>2, InOrderListsAll
<1>4. offset'[i] \in {offset[i], last + 1} /\ offset[i] <= offset'[i] /\ offset' \in [Adapters -> Nat]
      /\ \A j \in Adapters : j # i => offset'[j] = offset[j]
  BY <1>0, <1>1, <1>2 DEF OffsetAfter
<1>5. /\ downloading' \in [Adapters -> SUBSET Nat] /\ downloading'[i] = downloading[i] \union files
      /\ \A j \in Adapters : j # i => downloading'[j] = downloading[j]
  BY <1>0, <1>1, <1>2
<1> DEFINE more == InOrder(texts_)
<1>6. handed' = [handed EXCEPT ![i] = handed[i] \o more] /\ more \in Seq(Nat) /\ ToSet(more) = texts_
  BY <1>1, <1>3
<1>7. \A n \in got : n \in files \/ n \in texts_
  OBVIOUS
<1> HIDE DEF more, files, texts_
<1>8. handed[i] \o more \in Seq(Nat) /\ ToSet(handed[i] \o more) = ToSet(handed[i]) \union ToSet(more)
  BY <1>0, <1>6, JoinedSet
<1>9. /\ handed' \in [Adapters -> Seq(Nat)] /\ handed'[i] = handed[i] \o more
      /\ \A j \in Adapters : j # i => handed'[j] = handed[j]
  BY <1>0, <1>6, <1>8
<1>10. \A n \in confirmed + 1..last : n >= asking[i] => n \in downloading'[i] \/ n \in ToSet(handed'[i])
  BY <1>5, <1>6, <1>7, <1>8, <1>9
<1>11. \A j \in Adapters : downloading[j] \subseteq downloading'[j] /\ ToSet(handed[j]) \subseteq ToSet(handed'[j])
  BY <1>5, <1>8, <1>9
<1> HIDE DEF got
<1>12. QED
  BY <1>4, <1>5, <1>9, <1>10, <1>11 DEF Brings

\* The manager has as many adapters as it made.
LEMMA MadeIsNumber ==
  Made \in Nat
<1>1. MaxTokens \in Nat /\ IsFiniteSet(1..MaxTokens + 1)
  BY TelegramAssumption, FS_Interval
<1>2. IsFiniteSet({i \in Adapters : loop[i] # "none"})
  BY <1>1, FS_Subset DEF Adapters
<1>3. QED
  BY <1>2, FS_CardinalityType DEF Made

\* The settings that wait.
LEMMA SettingsWait ==
  ASSUME TelegramShape, Idle
  PROVE  Head(toApply) \in Settings /\ Tail(toApply) \in Seq(Settings)
BY DEF TelegramShape, Idle

\* Every step keeps the shape of the state.
LEMMA TelegramShapeKept ==
  ASSUME TelegramShape, [TelegramNext]_telegramVars
  PROVE  TelegramShape'
<1>1. ASSUME NEW t \in Settings, SaveToken(t) PROVE TelegramShape'
  BY <1>1 DEF SaveToken, TelegramShape, restVars
<1>2. CASE ApplySame
  BY <1>2, SettingsWait DEF ApplySame, TelegramShape, restVars
<1>3. CASE ApplyStop
  BY <1>3 DEF ApplyStop, TelegramShape, restVars, Settings, Loops
<1>4. CASE ApplyStart
  <2>1. Made + 1 \in Adapters
    BY <1>4, MadeIsNumber, TelegramAssumption DEF ApplyStart, Adapters
  <2>2. QED
    BY <1>4, <2>1, SettingsWait DEF ApplyStart, TelegramShape, restVars, Loops
<1>5. CASE Stopped
  BY <1>5 DEF Stopped, TelegramShape, restVars
<1>6. ASSUME NEW i \in Adapters, Top(i) PROVE TelegramShape'
  BY <1>6 DEF Top, Goes, Looping, managerVars, TelegramShape, restVars, Loops
<1>7. ASSUME NEW i \in Adapters, GetMe(i) PROVE TelegramShape'
  BY <1>7 DEF GetMe, Goes, Looping, managerVars, TelegramShape, restVars, Loops
<1>8. ASSUME NEW i \in Adapters, Ask(i) PROVE TelegramShape'
  BY <1>8 DEF Ask, Goes, Looping, managerVars, TelegramShape, Loops
<1>9. ASSUME NEW i \in Adapters, GotUpdates(i) PROVE TelegramShape'
  <2>1. offset' \in [Adapters -> Nat] /\ downloading' \in [Adapters -> SUBSET Nat] /\ handed' \in [Adapters -> Seq(Nat)]
    BY <1>9, GotFields DEF Brings
  <2>2. QED
    BY <1>9, <2>1 DEF GotUpdates, Goes, Looping, managerVars, TelegramShape, restVars, Loops
<1>10. ASSUME NEW i \in Adapters, PollFails(i) PROVE TelegramShape'
  BY <1>10 DEF PollFails, Goes, Looping, managerVars, TelegramShape, Loops
<1>11. ASSUME NEW i \in Adapters, Aborted(i) \/ BackOff(i) PROVE TelegramShape'
  BY <1>11 DEF Aborted, BackOff, Goes, Looping, managerVars, TelegramShape, restVars, Loops
<1>12. ASSUME NEW i \in Adapters, Unauthorized(i) PROVE TelegramShape'
  BY <1>12 DEF Unauthorized, Goes, managerVars, TelegramShape, Loops
<1>13. ASSUME NEW i \in Adapters, NEW n \in 1..Len(updates), Download(i, n) PROVE TelegramShape'
  <2>1. n \in Nat /\ updates \in Seq(BOOLEAN)
    BY DEF TelegramShape
  <2>2. Append(handed[i], n) \in Seq(Nat)
    BY <2>1, AppendedSet DEF TelegramShape
  <2>3. handed' \in [Adapters -> Seq(Nat)] /\ downloading' \in [Adapters -> SUBSET Nat] /\ pollFaults' \in Nat
    <3>1. handed \in [Adapters -> Seq(Nat)] /\ downloading \in [Adapters -> SUBSET Nat] /\ pollFaults \in Nat
      BY DEF TelegramShape
    <3>2. handed' = [handed EXCEPT ![i] = Append(handed[i], n)] \/ handed' = handed
      BY <1>13 DEF Download
    <3>3. handed' \in [Adapters -> Seq(Nat)]
      BY <2>2, <3>1, <3>2
    <3>4. downloading' \in [Adapters -> SUBSET Nat] /\ pollFaults' \in Nat
      BY <1>13, <3>1 DEF Download
    <3>5. QED
      BY <3>3, <3>4
  <2>4. QED
    BY <1>13, <2>3 DEF Download, managerVars, TelegramShape
<1>14. ASSUME NEW file \in BOOLEAN, NewUpdate(file) PROVE TelegramShape'
  BY <1>14 DEF NewUpdate, managerVars, TelegramShape
<1>15. CASE UNCHANGED telegramVars
  BY <1>15 DEF telegramVars, TelegramShape
<1>16. QED
  BY <1>1, <1>2, <1>3, <1>4, <1>5, <1>6, <1>7, <1>8, <1>9, <1>10, <1>11, <1>12, <1>13, <1>14, <1>15
     DEF TelegramNext, Settings

\* Every step keeps who works known to the manager.
LEMMA OneWorksKept ==
  ASSUME TelegramShape, OneWorks, [TelegramNext]_telegramVars
  PROVE  OneWorks'
<1>0. loop \in [Adapters -> Loops] /\ adapter \in Adapters \union {0} /\ stopping \in Adapters \union {0} /\ 0 \notin Adapters
  BY TelegramAssumption DEF TelegramShape, Adapters
<1>1. ASSUME UNCHANGED <<loop, adapter, stopping>> PROVE OneWorks'
  BY <1>1 DEF OneWorks
<1>2. ASSUME NEW i \in Adapters, NEW to \in Loops, loop[i] \notin {"none", "done"}, Goes(i, to), UNCHANGED <<adapter, stopping>>
      PROVE  OneWorks'
  BY <1>0, <1>2 DEF OneWorks, Goes
<1>3. CASE ApplyStop
  <2>1. /\ stopping = 0 /\ stopping' = adapter /\ adapter' = 0
        /\ \A i \in Adapters : i # adapter => loop'[i] = loop[i]
    BY <1>0, <1>3 DEF ApplyStop, Idle
  <2>2. QED
    BY <1>0, <2>1 DEF OneWorks
<1>4. CASE ApplyStart
  <2>1. /\ stopping = 0 /\ adapter = 0 /\ stopping' = 0 /\ adapter' = Made + 1
        /\ \A i \in Adapters : i # adapter' => loop'[i] = loop[i]
    BY <1>0, <1>4 DEF ApplyStart, Idle
  <2>2. QED
    BY <1>0, <2>1 DEF OneWorks
<1>5. CASE Stopped
  BY <1>0, <1>5 DEF Stopped, StopReturns, OneWorks
<1>6. ASSUME NEW i \in Adapters, Top(i) \/ GetMe(i) \/ Ask(i) \/ GotUpdates(i) \/ PollFails(i) \/ Aborted(i) \/ BackOff(i)
                                  \/ Unauthorized(i)
      PROVE  OneWorks'
  <2>1. loop[i] \notin {"none", "done"} /\ UNCHANGED <<adapter, stopping>> /\ \E to \in Loops : Goes(i, to)
    BY <1>6 DEF Top, GetMe, Ask, GotUpdates, PollFails, Aborted, BackOff, Unauthorized, Looping, managerVars, Loops
  <2>2. QED
    BY <1>2, <2>1
<1>7. QED
  BY <1>1, <1>3, <1>4, <1>5, <1>6
     DEF TelegramNext, telegramVars, SaveToken, ApplySame, Download, NewUpdate, managerVars

\* Every step keeps that nothing is skipped.
LEMMA NoneSkippedKept ==
  ASSUME TelegramShape, NoneSkipped, [TelegramNext]_telegramVars
  PROVE  NoneSkipped'
<1>0. /\ offset \in [Adapters -> Nat] /\ asking \in [Adapters -> Nat] /\ downloading \in [Adapters -> SUBSET Nat]
      /\ handed \in [Adapters -> Seq(Nat)] /\ updates \in Seq(BOOLEAN) /\ confirmed \in Nat /\ Len(updates) \in Nat
      /\ pollFaults \in Nat
  BY DEF TelegramShape
<1>1. ASSUME UNCHANGED <<offset, asking, downloading, handed, updates, confirmed>>,
             pollFaults' = pollFaults \/ pollFaults' = pollFaults + 1
      PROVE  NoneSkipped'
  BY <1>0, <1>1 DEF NoneSkipped, Dispatched
<1>2. ASSUME NEW i \in Adapters, Ask(i) PROVE NoneSkipped'
  <2>1. /\ asking'[i] = offset[i] /\ \A j \in Adapters : j # i => asking'[j] = asking[j]
        /\ UNCHANGED <<offset, downloading, handed, updates, pollFaults>>
        /\ confirmed' = confirmed \/ confirmed' = offset[i] - 1
    BY <1>0, <1>2 DEF Ask
  <2>2. ASSUME NEW j \in Adapters PROVE asking'[j] <= offset'[j] /\ offset'[j] <= Len(updates') + 1
    <3>1. asking[j] <= offset[j] /\ offset[j] <= Len(updates) + 1 /\ offset'[j] = offset[j] /\ offset[j] \in Nat
      BY <1>0, <2>1 DEF NoneSkipped
    <3>2. asking'[j] = asking[j] \/ asking'[j] = offset[j]
      BY <2>1
    <3>3. QED
      BY <2>1, <3>1, <3>2
  <2>3. \A n \in 1..confirmed' : \E j \in Adapters : offset'[j] > n
    <3>1. CASE confirmed' = confirmed
      BY <2>1, <3>1 DEF NoneSkipped
    <3>2. CASE confirmed' = offset[i] - 1
      BY <1>0, <2>1, <3>2
    <3>3. QED
      BY <2>1, <3>1, <3>2
  <2>4. QED
    BY <2>1, <2>2, <2>3 DEF NoneSkipped, Dispatched
<1>3. ASSUME NEW i \in Adapters, GotUpdates(i) PROVE NoneSkipped'
  <2>1. PICK last \in confirmed..Len(updates) : Brings(i, last)
    BY <1>3, GotFields
  <2>2. UNCHANGED <<asking, updates, confirmed, pollFaults>>
    BY <1>3 DEF GotUpdates, restVars
  <2>3. last \in Nat /\ last <= Len(updates) /\ offset' \in [Adapters -> Nat]
    BY <1>0, <2>1 DEF Brings
  <2>4. \A j \in Adapters : offset[j] <= offset'[j] /\ (offset'[j] = offset[j] \/ (j = i /\ offset'[j] = last + 1))
    BY <1>0, <2>1 DEF Brings
  <2>5. ASSUME NEW j \in Adapters PROVE asking'[j] <= offset'[j] /\ offset'[j] <= Len(updates') + 1
    <3>1. asking[j] <= offset[j] /\ offset[j] <= Len(updates) + 1 /\ asking[j] \in Nat /\ offset[j] \in Nat
      BY <1>0 DEF NoneSkipped
    <3>2. offset[j] <= offset'[j] /\ (offset'[j] = offset[j] \/ offset'[j] = last + 1) /\ offset'[j] \in Nat
      BY <2>3, <2>4
    <3>3. QED
      BY <1>0, <2>2, <2>3, <3>1, <3>2
  <2>6. \A n \in 1..confirmed' : \E j \in Adapters : offset'[j] > n
    BY <1>0, <2>2, <2>3, <2>4 DEF NoneSkipped
  <2>7. \A n : Dispatched(n) => Dispatched(n)'
    BY <2>1 DEF Dispatched, Brings
  <2>8. ASSUME pollFaults' = 0, NEW j \in Adapters, NEW n \in 1..Len(updates'), n < offset'[j] PROVE Dispatched(n)'
    <3>1. n \in 1..Len(updates) /\ n \in Nat /\ pollFaults = 0
      BY <2>2, <2>8
    <3>2. CASE \E k \in Adapters : n < offset[k]
      BY <2>7, <3>1, <3>2 DEF NoneSkipped
    <3>3. CASE \A k \in Adapters : ~ (n < offset[k])
      <4>1. n < last + 1
        BY <2>4, <2>8, <3>3
      <4>2. ~ (n <= confirmed)
        BY <1>0, <3>1, <3>3 DEF NoneSkipped
      <4>3. n \in confirmed + 1..last
        BY <1>0, <2>3, <3>1, <4>1, <4>2
      <4>4. n >= asking[i]
        BY <1>0, <3>1, <3>3 DEF NoneSkipped
      <4>5. QED
        BY <2>1, <4>3, <4>4 DEF Brings, Dispatched
    <3>4. QED
      BY <3>2, <3>3
  <2>9. QED
    BY <2>5, <2>6, <2>8 DEF NoneSkipped
<1>4. ASSUME NEW i \in Adapters, NEW n \in 1..Len(updates), Download(i, n) PROVE NoneSkipped'
  <2>1. /\ UNCHANGED <<offset, asking, updates, confirmed>> /\ n \in Nat
        /\ downloading'[i] = downloading[i] \ {n} /\ \A j \in Adapters : j # i => downloading'[j] = downloading[j]
    BY <1>0, <1>4 DEF Download
  <2>2. pollFaults' = 0 => pollFaults = 0 /\ handed' = [handed EXCEPT ![i] = Append(handed[i], n)]
    BY <1>0, <1>4 DEF Download
  <2>3. Append(handed[i], n) \in Seq(Nat) /\ ToSet(Append(handed[i], n)) = ToSet(handed[i]) \union {n}
    BY <1>0, <2>1, AppendedSet
  <2>4. ASSUME pollFaults' = 0, NEW m, Dispatched(m) PROVE Dispatched(m)'
    <3>1. ToSet(handed'[i]) = ToSet(handed[i]) \union {n} /\ \A j \in Adapters : j # i => handed'[j] = handed[j]
      BY <1>0, <2>2, <2>3, <2>4
    <3>2. QED
      BY <2>1, <2>4, <3>1 DEF Dispatched
  <2>5. QED
    BY <2>1, <2>2, <2>4 DEF NoneSkipped
<1>5. ASSUME NEW file \in BOOLEAN, NewUpdate(file) PROVE NoneSkipped'
  <2>1. Len(updates') = Len(updates) + 1 /\ UNCHANGED <<offset, asking, downloading, handed, confirmed, pollFaults>>
    BY <1>0, <1>5 DEF NewUpdate
  <2>2. \A i \in Adapters : asking[i] <= offset[i] /\ offset[i] <= Len(updates) + 1
    BY DEF NoneSkipped
  <2>3. \A i \in Adapters, n \in 1..Len(updates') : n < offset[i] => n \in 1..Len(updates)
    BY <1>0, <2>1, <2>2
  <2>4. QED
    BY <1>0, <2>1, <2>2, <2>3 DEF NoneSkipped, Dispatched
<1>6. QED
  <2>1. ASSUME NEW i \in Adapters, Top(i) \/ GetMe(i) \/ PollFails(i) \/ Aborted(i) \/ BackOff(i) \/ Unauthorized(i)
        PROVE  NoneSkipped'
    BY <1>1, <2>1 DEF Top, GetMe, PollFails, Aborted, BackOff, Unauthorized, restVars
  <2>2. ASSUME NEW t \in Settings, SaveToken(t) PROVE NoneSkipped'
    BY <1>1, <2>2 DEF SaveToken, restVars
  <2>3. CASE ApplySame \/ ApplyStop \/ ApplyStart \/ Stopped
    BY <1>1, <2>3 DEF ApplySame, ApplyStop, ApplyStart, Stopped, restVars
  <2>4. CASE UNCHANGED telegramVars
    BY <1>1, <2>4 DEF telegramVars
  <2>5. QED
    BY <1>2, <1>3, <1>4, <1>5, <2>1, <2>2, <2>3, <2>4 DEF TelegramNext, Settings

\* The invariant holds always.
LEMMA TelegramInvariant ==
  TelegramSpec => []TelegramInv
<1>1. TelegramInit => TelegramInv
  BY TelegramAssumption DEF TelegramInit, TelegramInv, TelegramShape, OneWorks, NoneSkipped, Settings, Loops
<1>2. TelegramInv /\ [TelegramNext]_telegramVars => TelegramInv'
  BY TelegramShapeKept, OneWorksKept, NoneSkippedKept DEF TelegramInv
<1>3. QED
  BY <1>1, <1>2, PTL DEF TelegramSpec

\* The bot's settings, loops, offsets and updates keep their shape.
THEOREM TelegramTypeCorrect ==
  TelegramSpec => []TelegramShape
<1>1. TelegramInv => TelegramShape
  BY DEF TelegramInv
<1>2. QED
  BY <1>1, TelegramInvariant, PTL

\* Never two loops poll Telegram, and what it has forgotten was dispatched, for
\* any number of changed settings, updates and failing polls.
THEOREM TelegramPollingIsSafe ==
  TelegramSpec => []PollingIsSafe
<1>1. TelegramInv => PollingIsSafe
  <2> SUFFICES ASSUME TelegramInv PROVE PollingIsSafe
    OBVIOUS
  <2>1. Cardinality({i \in Adapters : loop[i] \notin {"none", "done"}}) <= 1
    <3> DEFINE W == {i \in Adapters : loop[i] \notin {"none", "done"}}
    <3>1. \E x : W \subseteq {x}
      <4>1. 0 \notin Adapters
        BY TelegramAssumption DEF Adapters
      <4>2. adapter # 0 => W \subseteq {adapter}
        BY <4>1 DEF TelegramInv, OneWorks
      <4>3. adapter = 0 => W \subseteq {stopping}
        BY <4>1 DEF TelegramInv, OneWorks
      <4>4. QED
        BY <4>2, <4>3
    <3>2. PICK x : W \subseteq {x}
      BY <3>1
    <3>3. W = {} \/ W = {x}
      BY <3>2
    <3>4. Cardinality({}) = 0 /\ Cardinality({x}) = 1
      BY FS_EmptySet, FS_Singleton
    <3>5. Cardinality(W) = 0 \/ Cardinality(W) = 1
      BY <3>3, <3>4
    <3>6. QED
      BY <3>5
  <2>2. \A n : Dispatched(n) => \E j \in Adapters : n \in downloading[j] \/ \E k \in DOMAIN handed[j] : handed[j][k] = n
    BY DEF Dispatched, ToSet
  <2>3. QED
    BY <2>1, <2>2 DEF TelegramInv, NoneSkipped, PollingIsSafe
<1>2. QED
  BY <1>1, TelegramInvariant, PTL

-----------------------------------------------------------------------------
(***************************************************************************)
(* The order of a chat's messages.  What waits in its queue was seen, came *)
(* after what was handled, and in order; so a message that is delivered    *)
(* again is known.                                                         *)
(***************************************************************************)
Waits(c, m) == m.no[1] = c /\ m.no \in seenIds /\ handled[c] < m.no[2] /\ m.no[2] <= sent[c]

QueueInOrder(c) ==
  /\ \A j \in DOMAIN chatInbox[c] : Waits(c, chatInbox[c][j])
  /\ \A j, k \in DOMAIN chatInbox[c] : j < k => chatInbox[c][j].no[2] < chatInbox[c][k].no[2]
  /\ handled[c] <= sent[c] /\ (handled[c] > 0 => <<c, handled[c]>> \in seenIds)

QueuesInOrder == \A c \in Chats : QueueInOrder(c)

\* Where the messages of a queue that grew or shrank stand.
LEMMA QueuePlaces ==
  ASSUME NEW q \in Seq(Message)
  PROVE  /\ \A m \in Message : \A j \in DOMAIN Append(q, m) :
              \/ j \in DOMAIN q /\ Append(q, m)[j] = q[j]
              \/ j = Len(q) + 1 /\ Append(q, m)[j] = m
         /\ \A j \in DOMAIN q : j \in Nat /\ j < Len(q) + 1 /\ q[j] \in Message
         /\ q # <<>> => /\ \A j \in DOMAIN Tail(q) : j + 1 \in DOMAIN q /\ j \in Nat /\ 1 < j + 1 /\ Tail(q)[j] = q[j + 1]
                        /\ 1 \in DOMAIN q /\ Head(q) = q[1]
OBVIOUS

\* What each step does to the queues.
Arrives ==
  \E c \in Chats, m \in Message :
    /\ m.no = <<c, sent[c] + 1>> /\ sent' = [sent EXCEPT ![c] = @ + 1] /\ Enqueue(c, m) /\ handled' = handled
IsHandled(c) ==
  /\ chatInbox[c] # <<>> /\ chatInbox' = [chatInbox EXCEPT ![c] = Tail(@)]
  /\ handled' = [handled EXCEPT ![c] = Head(chatInbox[c]).no[2]] /\ UNCHANGED <<seenIds, sent>>
AllQueuesGo ==
  chatInbox' = [c \in Chats |-> <<>>] /\ seenIds' = {} /\ handled' = [c \in Chats |-> 0] /\ sent' = sent
QueuesWait == UNCHANGED <<chatInbox, seenIds, sent, handled>>

\* A message delivered again was seen before.
LEMMA QueueSteps ==
  ASSUME BridgeShape, QueuesInOrder, [BridgeNext]_bridgeVars
  PROVE  Arrives \/ (\E c \in Chats : IsHandled(c)) \/ AllQueuesGo \/ QueuesWait
<1>1. ASSUME NEW c \in Chats, NEW kind \in Kinds \union {"code"}, NEW k \in 0..NumCodes,
             kind = "code" => k \in Codes, Arrive(c, kind, k)
      PROVE  Arrives
  <2> DEFINE m == [no |-> <<c, sent[c] + 1>>, kind |-> kind, code |-> k]
  <2>1. m \in Message
    BY <1>1 DEF Message, BridgeShape
  <2>2. QED
    BY <1>1, <2>1 DEF Arrive, Arrives
<1>2. ASSUME NEW c \in Chats, Redeliver(c) PROVE QueuesWait
  BY <1>2 DEF Redeliver, Enqueue, QueuesInOrder, QueueInOrder, QueuesWait
<1>3. ASSUME NEW c \in Chats, Handle(c) PROVE IsHandled(c)
  BY <1>3 DEF Handle, IsHandled
<1>4. CASE BridgeDies
  BY <1>4 DEF BridgeDies, AllQueuesGo
<1>5. ASSUME NEW c \in Chats,
             \/ CheckCode(c) \/ FindExisting(c) \/ Relink(c) \/ ReadLink(c) \/ EnsureSession(c)
             \/ CreateSession(c) \/ Activate(c) \/ UnlinkChat(c) \/ AskModel(c) \/ HandleFails(c)
      PROVE  QueuesWait
  BY <1>5 DEF CheckCode, FindExisting, Relink, ReadLink, EnsureSession, CreateSession, Activate, UnlinkChat, AskModel,
              HandleFails, Unchanged, QueuesWait
<1>6. ASSUME NEW u \in Users,
             \/ UnlinkUser(u)
             \/ \E s \in BridgeSessions : ContinueSession(u, s)
             \/ \E k \in Codes, s \in BridgeSessions \union {"none"} : CreateCode(u, k, s)
      PROVE  QueuesWait
  BY <1>6 DEF UnlinkUser, ContinueSession, CreateCode, WebOnly, QueuesWait
<1>7. CASE SwitchSession \/ \E s \in BridgeSessions : DeleteWebChat(s)
  BY <1>7 DEF SwitchSession, DeleteWebChat, WebOnly, QueuesWait
<1>8. CASE UNCHANGED bridgeVars
  BY <1>8 DEF bridgeVars, QueuesWait
<1>9. \A k \in Codes : k \in 0..NumCodes
  BY BridgeAssumption DEF Codes
<1>10. 0 \in 0..NumCodes /\ "code" \notin Kinds
  BY BridgeAssumption DEF Kinds
<1>11. ASSUME NEW c \in Chats, \E kind \in Kinds : Arrive(c, kind, 0) PROVE Arrives
  BY <1>1, <1>10, <1>11
<1>12. ASSUME NEW c \in Chats, \E k \in Codes : code[k].state # "none" /\ Arrive(c, "code", k) PROVE Arrives
  BY <1>1, <1>9, <1>12
<1>13. QED
  BY <1>2, <1>3, <1>4, <1>5, <1>6, <1>7, <1>8, <1>11, <1>12 DEF BridgeNext

\* Every step keeps the order.
LEMMA QueuesStayInOrder ==
  ASSUME BridgeShape, QueuesInOrder, [BridgeNext]_bridgeVars
  PROVE  QueuesInOrder'
<1>0. /\ chatInbox \in [Chats -> Seq(Message)] /\ sent \in [Chats -> Nat] /\ handled \in [Chats -> Nat]
      /\ \A c \in Chats : QueueInOrder(c)
  BY DEF BridgeShape, QueuesInOrder
<1>1. CASE QueuesWait
  BY <1>0, <1>1 DEF QueuesWait, QueuesInOrder, QueueInOrder, Waits
<1>2. CASE AllQueuesGo
  BY <1>0, <1>2 DEF AllQueuesGo, QueuesInOrder, QueueInOrder
<1>3. ASSUME NEW c \in Chats, IsHandled(c) PROVE QueuesInOrder'
  <2> DEFINE q == chatInbox[c]
  <2>1. q \in Seq(Message) /\ q # <<>> /\ chatInbox'[c] = Tail(q) /\ Head(q) = q[1] /\ 1 \in DOMAIN q
    BY <1>0, <1>3, QueuePlaces DEF IsHandled
  <2>2. Waits(c, q[1]) /\ q[1].no = <<c, q[1].no[2]>> /\ handled'[c] = q[1].no[2] /\ sent' = sent /\ seenIds' = seenIds
    <3>1. Waits(c, q[1]) /\ q[1] \in Message
      BY <1>0, <2>1, QueuePlaces DEF QueueInOrder
    <3>2. q[1].no = <<c, q[1].no[2]>>
      BY <3>1 DEF Waits, Message
    <3>3. QED
      BY <1>0, <1>3, <2>1, <3>1, <3>2 DEF IsHandled
  <2>3. \A j \in DOMAIN Tail(q) : j + 1 \in DOMAIN q /\ j \in Nat /\ 1 < j + 1 /\ Tail(q)[j] = q[j + 1]
    BY <2>1, QueuePlaces
  <2>4. QueueInOrder(c)'
    <3>1. \A j \in DOMAIN Tail(q) : Waits(c, Tail(q)[j]) /\ q[1].no[2] < Tail(q)[j].no[2]
      BY <1>0, <2>1, <2>3 DEF QueueInOrder
    <3>2. \A j, k \in DOMAIN Tail(q) : j < k => Tail(q)[j].no[2] < Tail(q)[k].no[2]
      <4> SUFFICES ASSUME NEW j \in DOMAIN Tail(q), NEW k \in DOMAIN Tail(q), j < k
                   PROVE  Tail(q)[j].no[2] < Tail(q)[k].no[2]
        OBVIOUS
      <4>1. j + 1 \in DOMAIN q /\ k + 1 \in DOMAIN q /\ j + 1 < k + 1 /\ Tail(q)[j] = q[j + 1] /\ Tail(q)[k] = q[k + 1]
        BY <2>3
      <4>2. \A a, b \in DOMAIN q : a < b => q[a].no[2] < q[b].no[2]
        BY <1>0 DEF QueueInOrder
      <4> HIDE DEF q
      <4>3. QED
        BY <4>1, <4>2
    <3> HIDE DEF q
    <3>3. QED
      BY <2>1, <2>2, <3>1, <3>2 DEF QueueInOrder, Waits
  <2>5. \A d \in Chats \ {c} : chatInbox'[d] = chatInbox[d] /\ handled'[d] = handled[d]
    BY <1>0, <1>3 DEF IsHandled
  <2>6. \A d \in Chats \ {c} : QueueInOrder(d)'
    BY <1>0, <2>2, <2>5 DEF QueueInOrder, Waits
  <2>7. QED
    BY <2>4, <2>6 DEF QueuesInOrder
<1>4. CASE Arrives
  <2>1. PICK c \in Chats, m \in Message :
          m.no = <<c, sent[c] + 1>> /\ sent' = [sent EXCEPT ![c] = @ + 1] /\ Enqueue(c, m) /\ handled' = handled
    BY <1>4 DEF Arrives
  <2>2. sent[c] \in Nat /\ sent'[c] = sent[c] + 1 /\ (\A d \in Chats \ {c} : sent'[d] = sent[d]) /\ handled[c] \in Nat
    BY <1>0, <2>1
  <2>3. CASE UNCHANGED <<chatInbox, seenIds>>
    <3>1. ASSUME NEW d \in Chats PROVE sent[d] \in Nat /\ sent'[d] \in Nat /\ sent[d] <= sent'[d] /\ handled[d] \in Nat
      <4>1. sent'[d] = sent[d] \/ (d = c /\ sent'[d] = sent[d] + 1)
        BY <2>2
      <4>2. QED
        BY <1>0, <4>1
    <3>2. \A d \in Chats : \A j \in DOMAIN chatInbox[d] : chatInbox[d][j].no[2] \in Nat
      BY <1>0, QueuePlaces DEF Message
    <3>3. ASSUME NEW d \in Chats PROVE QueueInOrder(d)'
      <4>0. handled'[d] = handled[d] /\ QueueInOrder(d)
        BY <1>0, <2>1
      <4>1. ASSUME NEW j \in DOMAIN chatInbox[d] PROVE Waits(d, chatInbox[d][j])'
        <5>1. Waits(d, chatInbox[d][j]) /\ chatInbox[d][j].no[2] \in Nat
          BY <3>2, <4>0 DEF QueueInOrder
        <5>2. chatInbox[d][j].no[2] <= sent'[d]
          BY <3>1, <5>1 DEF Waits
        <5>3. QED
          BY <2>3, <4>0, <5>1, <5>2 DEF Waits
      <4>2. handled'[d] <= sent'[d]
        <5>1. handled[d] <= sent[d]
          BY <4>0 DEF QueueInOrder
        <5>2. QED
          BY <3>1, <4>0, <5>1
      <4>3. QED
        BY <2>3, <4>0, <4>1, <4>2 DEF QueueInOrder
    <3>4. QED
      BY <3>3 DEF QueuesInOrder
  <2>4. CASE chatInbox' = [chatInbox EXCEPT ![c] = Append(@, m)] /\ seenIds' = seenIds \union {m.no}
    <3>0. PICK q \in Seq(Message) : q = chatInbox[c]
      BY <1>0
    <3>1. q \in Seq(Message) /\ chatInbox'[c] = Append(q, m)
      BY <1>0, <2>4, <3>0
    <3>2. \A j \in DOMAIN q : j \in Nat /\ j < Len(q) + 1 /\ q[j].no[2] \in Nat /\ q[j].no[2] < m.no[2] /\ Waits(c, q[j])'
      <4>1. \A j \in DOMAIN q : j \in Nat /\ j < Len(q) + 1 /\ q[j].no[2] \in Nat
        BY <3>1, QueuePlaces DEF Message
      <4>2. \A j \in DOMAIN q : Waits(c, q[j])
        BY <1>0, <3>0 DEF QueueInOrder
      <4>3. m.no[2] = sent[c] + 1
        BY <2>1
      <4>4. handled'[c] = handled[c] /\ \A x \in seenIds : x \in seenIds'
        BY <2>1, <2>4
      <4>5. ASSUME NEW j \in DOMAIN q PROVE q[j].no[2] < m.no[2] /\ Waits(c, q[j])'
        <5>1. Waits(c, q[j]) /\ q[j].no[2] \in Nat
          BY <4>1, <4>2
        <5>2. q[j].no[2] < m.no[2] /\ q[j].no[2] <= sent'[c]
          BY <2>2, <4>3, <5>1 DEF Waits
        <5>3. QED
          BY <4>4, <5>1, <5>2 DEF Waits
      <4>6. QED
        BY <4>1, <4>5
    <3>3. Waits(c, m)'
      <4>1. handled[c] <= sent[c]
        BY <1>0 DEF QueueInOrder
      <4>2. QED
        BY <2>1, <2>2, <2>4, <4>1 DEF Waits
    <3>4. \A j \in DOMAIN Append(q, m) :
            \/ j \in DOMAIN q /\ Append(q, m)[j] = q[j]
            \/ j = Len(q) + 1 /\ Append(q, m)[j] = m
      BY <3>1, QueuePlaces
    <3>5. \A j, k \in DOMAIN q : j < k => q[j].no[2] < q[k].no[2]
      BY <1>0, <3>0 DEF QueueInOrder
    <3>6. Len(q) \in Nat
      BY <3>1
    <3>7. handled'[c] <= sent'[c] /\ (handled'[c] > 0 => <<c, handled'[c]>> \in seenIds')
      BY <1>0, <2>1, <2>2, <2>4 DEF QueueInOrder
    <3> DEFINE r == Append(q, m)
    <3>8. \A j \in DOMAIN r : Waits(c, r[j])'
      BY <3>2, <3>3, <3>4
    <3>9. \A j, k \in DOMAIN r : j < k => r[j].no[2] < r[k].no[2]
      BY <3>2, <3>4, <3>5, <3>6
    <3> HIDE DEF r
    <3>10. QueueInOrder(c)'
      BY <3>1, <3>7, <3>8, <3>9 DEF QueueInOrder, r
    <3>11. \A d \in Chats \ {c} : chatInbox'[d] = chatInbox[d] /\ handled'[d] = handled[d] /\ sent'[d] = sent[d]
      BY <1>0, <2>1, <2>2, <2>4
    <3>12. \A d \in Chats \ {c} : QueueInOrder(d)'
      BY <1>0, <2>4, <3>11 DEF QueueInOrder, Waits
    <3>13. QED
      BY <3>10, <3>12 DEF QueuesInOrder
  <2>5. QED
    BY <2>1, <2>3, <2>4 DEF Enqueue
<1>5. QED
  BY <1>1, <1>2, <1>3, <1>4, QueueSteps

\* enqueue() skips what the bridge has seen and a chat's messages are taken one
\* after another: none is handled twice or after a later one while the bridge
\* runs, for any number of chats, messages and redeliveries.
THEOREM BridgeHandlesOnceInOrder == BridgeSpec => HandledOnceInOrder
<1>1. BridgeInit => QueuesInOrder
  BY BridgeAssumption DEF BridgeInit, QueuesInOrder, QueueInOrder
<1>2. BridgeShape /\ QueuesInOrder /\ [BridgeNext]_bridgeVars => QueuesInOrder'
  BY QueuesStayInOrder
<1>3. BridgeShape /\ QueuesInOrder /\ [BridgeNext]_bridgeVars =>
        [\A c \in Chats : handled'[c] \in {handled[c], 0} \/ handled'[c] > handled[c]]_bridgeVars
  <2> SUFFICES ASSUME BridgeShape, QueuesInOrder, [BridgeNext]_bridgeVars, NEW d \in Chats
               PROVE  handled'[d] \in {handled[d], 0} \/ handled'[d] > handled[d]
    OBVIOUS
  <2>1. ASSUME NEW c \in Chats, IsHandled(c) PROVE handled'[d] = handled[d] \/ handled'[d] > handled[d]
    <3>1. chatInbox[c] \in Seq(Message) /\ chatInbox[c] # <<>> /\ handled \in [Chats -> Nat]
      BY <2>1 DEF BridgeShape, IsHandled
    <3>2. 1 \in DOMAIN chatInbox[c] /\ Head(chatInbox[c]) = chatInbox[c][1]
      BY <3>1, QueuePlaces
    <3>3. handled[c] < Head(chatInbox[c]).no[2] /\ Head(chatInbox[c]).no[2] \in Nat
      <4>1. chatInbox[c][1] \in Message
        BY <3>1, <3>2, QueuePlaces
      <4>2. Waits(c, chatInbox[c][1])
        BY <3>2 DEF QueuesInOrder, QueueInOrder
      <4>3. QED
        BY <3>2, <4>1, <4>2 DEF Waits, Message
    <3>4. QED
      BY <2>1, <3>1, <3>3 DEF IsHandled
  <2>2. QED
    BY <2>1, QueueSteps DEF Arrives, AllQueuesGo, QueuesWait
<1>4. QED
  BY <1>1, <1>2, <1>3, BridgeTypeCorrect, PTL DEF BridgeSpec, HandledOnceInOrder
-----------------------------------------------------------------------------
(***************************************************************************)
(* A turn of an agent at a provider.  What a turn still has to do is in    *)
(* the events on their way, so the invariant says what each of them may    *)
(* be about: what it tells is not in the rows yet, the events of a call    *)
(* come in order, the text still to come makes up for what the reply       *)
(* lacks, and a call is waited for, on its way to its end, or ended.       *)
(***************************************************************************)
AllCalls == Asked \union Hosted
EventTypes == {"text", "start", "end", "requires", "use", "done", "failed", "idle"}
Events == [type : EventTypes, calls : SUBSET AllCalls]
RowIds == {"call", "item"} \X AllCalls
ToolRows == {"tool_call", "tool_call_output"} \X RowIds
HistoryRows == {"input", "tool_call", "tool_call_output", "reply"} \X (RowIds \union {<<>>})
Stages == {"store", "open", "loop", "act", "rows", "reply", "ended"}

TurnShape ==
  /\ backend \in {"openai", "claude"} /\ remote \in {"idle", "working", "done", "failed", "cancelled"}
  /\ called \subseteq AllCalls /\ required \subseteq called \intersect Asked
  /\ stream \in Seq(Events) /\ turn \in Stages
  /\ todo \subseteq answered /\ answered \subseteq called \intersect Asked
  /\ reply \in Nat /\ texts \in Nat /\ turnFaults \in Nat /\ {aborted, turnDone, failed} \subseteq BOOLEAN
  /\ toolRows \in Seq(ToolRows) /\ history \in Seq(HistoryRows) /\ runs \in [Asked -> Nat]
  /\ turn \in {"store", "open"} => remote = "idle"
  /\ turn \in {"store", "open", "loop"} => todo = {}
  /\ remote \in {"done", "failed"} => required = {}

\* What an event may be about, and that what it tells is still to be done.
EventFits(e) ==
  /\ e.calls \subseteq called
  /\ e.type \in {"start", "end", "use"} => \E c \in called : e.calls = {c}
  /\ e.type = "start" =>
       \A c \in e.calls : /\ c \notin Approvals /\ ~HasRow("tool_call", StartId(c))
                          /\ backend = "claude" => c \notin answered
  /\ e.type = "end" => \A c \in e.calls : c \in Hosted /\ ~HasRow("tool_call_output", CallId(c))
  /\ e.type = "use" => backend = "claude" /\ \A c \in e.calls : c \in Own /\ c \notin answered
  /\ e.type = "requires" => backend = "openai" /\ e.calls \subseteq Asked

\* Two events about one call: its start, and then its end or its use.
Follow(e, f) ==
  /\ {e.type, f.type} \subseteq {"start", "end", "use"} /\ e.calls = f.calls => e.type = "start" /\ f.type # "start"

\* The idle that ends the turn is the last event; OpenAI's may begin with one.
IdleFits(i) ==
  stream[i].type = "idle" =>
    \/ i = Len(stream) /\ remote \in {"done", "failed"}
    \/ i = 1 /\ backend = "openai" /\ ~turnDone

StreamFits ==
  /\ \A e \in ToSet(stream) : EventFits(e)
  /\ \A i \in DOMAIN stream : IdleFits(i)
  /\ \A i, j \in DOMAIN stream : i < j => Follow(stream[i], stream[j])

\* No row is kept twice; an output has its call, and that of an answer was given.
RowsFit ==
  /\ IsInjective(toolRows)
  /\ \A i \in DOMAIN toolRows : toolRows[i][2][2] \in called
  /\ \A c \in AllCalls : HasRow("tool_call_output", CallId(c)) => HasRow("tool_call", CallId(c))
  /\ \A c \in AllCalls : ~HasRow("tool_call_output", <<"item", c>>)
  /\ \A c \in Asked : HasRow("tool_call_output", CallId(c)) => runs[c] > 0
  /\ \A c \in Approvals : HasRow("tool_call", CallId(c)) => runs[c] > 0

AnsweredOnce ==
  \A c \in Asked : runs[c] <= 1 /\ (runs[c] > 0 => c \in answered) /\ (c \in todo => runs[c] = 0)

\* k[n] is how much text there is before the n-th event still to come.
TextsCounted(k) ==
  /\ k \in [0 .. Len(stream) -> Nat] /\ k[0] = reply /\ k[Len(stream)] = texts
  /\ \A n \in 1 .. Len(stream) : k[n] = k[n - 1] + (IF stream[n].type = "text" THEN 1 ELSE 0)
TextsKept == ~aborted => \E k : TextsCounted(k)

\* What became of each call.
CallsKept ==
  ~aborted => \A c \in called : \/ c \in required \/ HasRow("tool_call_output", CallId(c))
                                \/ \E i \in DOMAIN stream : stream[i].type = "end" /\ stream[i].calls = {c}

HeardOut ==
  turn \in {"rows", "reply", "ended"} /\ ~aborted /\ turnFaults = 0 => stream = <<>> /\ remote \in {"done", "failed"}

HistoryFits ==
  /\ Whole(history)
  /\ turn = "store" => history = <<>>
  /\ turn \in {"open", "loop", "act", "rows"} => history = <<Row("input", <<>>)>>
  /\ turn = "reply" => \A i \in DOMAIN history : history[i][1] # "reply"

TurnInv ==
  TurnShape /\ StreamFits /\ RowsFit /\ AnsweredOnce /\ TextsKept /\ CallsKept /\ HeardOut /\ HistoryFits

\* The rows that are there.
LEMMA RowIsThere ==
  ASSUME NEW kind, NEW id
  PROVE  /\ HasRow(kind, id) <=> Row(kind, id) \in ToSet(toolRows)
         /\ HasRow(kind, id)' <=> Row(kind, id) \in ToSet(toolRows')
BY DEF HasRow, ToSet

\* New rows.
Adds(new) ==
  /\ toolRows' \in Seq(ToolRows) /\ IsInjective(toolRows')
  /\ ToSet(toolRows') = ToSet(toolRows) \union new

LEMMA AppendedRows ==
  ASSUME toolRows \in Seq(ToolRows), IsInjective(toolRows),
         NEW new \in Seq(ToolRows), IsInjective(new), ToSet(new) \intersect ToSet(toolRows) = {},
         toolRows' = toolRows \o new
  PROVE  Adds(ToSet(new))
<1>1. /\ toolRows \o new \in Seq(ToolRows) /\ ToSet(toolRows \o new) = ToSet(toolRows) \union ToSet(new)
      /\ IsInjective(toolRows \o new)
  BY JoinedSet, Zenon
<1>2. QED
  BY <1>1 DEF Adds

\* One row, and two different ones.
LEMMA ShortLists ==
  /\ \A r : ToSet(<<r>>) = {r} /\ IsInjective(<<r>>)
  /\ \A q, r : q # r => ToSet(<<q, r>>) = {q, r} /\ IsInjective(<<q, r>>)
<1>1. ASSUME NEW r PROVE ToSet(<<r>>) = {r} /\ IsInjective(<<r>>)
  BY DEF ToSet, IsInjective
<1>2. ASSUME NEW q, NEW r, q # r PROVE ToSet(<<q, r>>) = {q, r} /\ IsInjective(<<q, r>>)
  <2>1. DOMAIN <<q, r>> = {1, 2} /\ <<q, r>>[1] = q /\ <<q, r>>[2] = r
    OBVIOUS
  <2>2. QED
    BY <1>2, <2>1 DEF ToSet, IsInjective
<1>3. QED
  BY <1>1, <1>2

\* Ids.
LEMMA IdFacts ==
  /\ \A c \in AllCalls : /\ CallId(c) \in RowIds /\ StartId(c) \in RowIds
                         /\ CallId(c)[2] = c /\ StartId(c)[2] = c /\ CallId(c) # <<"item", c>>
                         /\ StartId(c) \in {CallId(c), <<"item", c>>}
  /\ \A c, d \in AllCalls : /\ CallId(c) = CallId(d) => c = d
                            /\ StartId(c) = StartId(d) => c = d
                            /\ StartId(c) = CallId(d) => c = d /\ (c \in Own => backend # "openai")
                            /\ CallId(c) # <<"item", d>>
  /\ \A kind \in {"tool_call", "tool_call_output"}, id \in RowIds :
       Row(kind, id) \in ToolRows /\ Row(kind, id)[1] = kind /\ Row(kind, id)[2] = id
  /\ \A k, l, id, jd : Row(k, id) = Row(l, jd) <=> k = l /\ id = jd
BY DEF CallId, StartId, RowIds, Row, ToolRows

\* A start row, and the rows of an end.
LEMMA StartedRows ==
  ASSUME TurnShape, RowsFit, NEW c \in AllCalls, ~HasRow("tool_call", StartId(c)), Started(StartId(c))
  PROVE  Adds({Row("tool_call", StartId(c))})
<1> DEFINE r == Row("tool_call", StartId(c))
<1>1. r \in ToolRows /\ r \notin ToSet(toolRows)
  BY IdFacts, RowIsThere
<1>2. toolRows' = toolRows \o <<r>> /\ <<r>> \in Seq(ToolRows)
  BY <1>1 DEF Started, TurnShape
<1> HIDE DEF r
<1>3. ToSet(<<r>>) = {r} /\ IsInjective(<<r>>)
  BY ShortLists
<1>4. toolRows \in Seq(ToolRows) /\ IsInjective(toolRows)
  BY DEF TurnShape, RowsFit
<1>5. Adds(ToSet(<<r>>))
  BY <1>1, <1>2, <1>3, <1>4, AppendedRows
<1>6. QED
  BY <1>3, <1>5 DEF r

LEMMA EndedRows ==
  ASSUME TurnShape, RowsFit, NEW c \in AllCalls, ~HasRow("tool_call_output", CallId(c)), EndedRow(CallId(c))
  PROVE  Adds({Row("tool_call", CallId(c)), Row("tool_call_output", CallId(c))})
<1> DEFINE q == Row("tool_call", CallId(c))
           r == Row("tool_call_output", CallId(c))
<1>1. q \in ToolRows /\ r \in ToolRows /\ r \notin ToSet(toolRows) /\ q # r
  BY IdFacts, RowIsThere
<1>2. toolRows \in Seq(ToolRows) /\ IsInjective(toolRows)
  BY DEF TurnShape, RowsFit
<1>3. CASE HasRow("tool_call", CallId(c))
  <2>1. q \in ToSet(toolRows)
    BY <1>3, RowIsThere
  <2>2. toolRows' = toolRows \o <<r>> /\ <<r>> \in Seq(ToolRows)
    BY <1>1, <1>2, <1>3 DEF EndedRow
  <2> HIDE DEF q, r
  <2>3. ToSet(<<r>>) = {r} /\ IsInjective(<<r>>)
    BY ShortLists
  <2>4. Adds({r})
    BY <1>1, <1>2, <2>2, <2>3, AppendedRows
  <2>5. Adds({q, r})
    BY <2>1, <2>4 DEF Adds
  <2>6. QED
    BY <2>5 DEF q, r
<1>4. CASE ~HasRow("tool_call", CallId(c))
  <2>1. q \notin ToSet(toolRows)
    BY <1>4, RowIsThere
  <2>2. toolRows' = toolRows \o <<q, r>> /\ <<q, r>> \in Seq(ToolRows)
    BY <1>1, <1>2, <1>4 DEF EndedRow
  <2> HIDE DEF q, r
  <2>3. ToSet(<<q, r>>) = {q, r} /\ IsInjective(<<q, r>>)
    BY <1>1, ShortLists
  <2>4. Adds(ToSet(<<q, r>>))
    BY <1>1, <1>2, <2>1, <2>2, <2>3, AppendedRows
  <2>5. QED
    BY <2>3, <2>4 DEF q, r
<1>5. QED
  BY <1>3, <1>4

LEMMA ApprovalRows ==
  ASSUME TurnShape, RowsFit, NEW c \in AllCalls,
         ~HasRow("tool_call", CallId(c)), ~HasRow("tool_call_output", CallId(c)),
         toolRows' = toolRows \o <<Row("tool_call", CallId(c)), Row("tool_call_output", CallId(c))>>
  PROVE  Adds({Row("tool_call", CallId(c)), Row("tool_call_output", CallId(c))})
<1> DEFINE q == Row("tool_call", CallId(c))
           r == Row("tool_call_output", CallId(c))
<1>1. q \in ToolRows /\ r \in ToolRows /\ r \notin ToSet(toolRows) /\ q \notin ToSet(toolRows) /\ q # r
  BY IdFacts, RowIsThere
<1>2. toolRows \in Seq(ToolRows) /\ IsInjective(toolRows)
  BY DEF TurnShape, RowsFit
<1>3. toolRows' = toolRows \o <<q, r>> /\ <<q, r>> \in Seq(ToolRows)
  BY <1>1
<1> HIDE DEF q, r
<1>4. ToSet(<<q, r>>) = {q, r} /\ IsInjective(<<q, r>>)
  BY <1>1, ShortLists
<1>5. Adds(ToSet(<<q, r>>))
  BY <1>1, <1>2, <1>3, <1>4, AppendedRows
<1>6. QED
  BY <1>4, <1>5 DEF q, r

\* What RowsFit asks of new rows.
LEMMA RowsFitKept ==
  ASSUME RowsFit, backend' = backend, called \subseteq called', NEW new, new \subseteq ToolRows, Adds(new),
         \A r \in new : r[2][2] \in called',
         \A c \in AllCalls : Row("tool_call_output", CallId(c)) \in new => Row("tool_call", CallId(c)) \in new,
         \A c \in AllCalls : Row("tool_call_output", <<"item", c>>) \notin new,
         \A c \in Asked : runs[c] > 0 \/ Row("tool_call_output", CallId(c)) \in new => runs'[c] > 0,
         \A c \in Approvals : Row("tool_call", CallId(c)) \in new => runs'[c] > 0
  PROVE  RowsFit'
<1>1. /\ IsInjective(toolRows') /\ ToSet(toolRows') = ToSet(toolRows) \union new
  BY DEF Adds
<1>2. \A kind, id : HasRow(kind, id)' <=> HasRow(kind, id) \/ Row(kind, id) \in new
  BY <1>1, RowIsThere, Zenon
<1>3. \A i \in DOMAIN toolRows' : toolRows'[i][2][2] \in called'
  <2>1. \A r \in ToSet(toolRows) : r[2][2] \in called
    BY DEF RowsFit, ToSet
  <2>2. \A i \in DOMAIN toolRows' : toolRows'[i] \in ToSet(toolRows')
    BY DEF ToSet
  <2>3. QED
    BY <1>1, <2>1, <2>2
<1>4. \A c : CallId(c)' = CallId(c)
  BY DEF CallId
<1>5. \A c \in AllCalls : HasRow("tool_call_output", CallId(c))' => HasRow("tool_call", CallId(c))'
  BY <1>2, Zenon DEF RowsFit
<1>6. \A c \in AllCalls : ~HasRow("tool_call_output", <<"item", c>>)'
  BY <1>2, Zenon DEF RowsFit
<1>7. \A c \in Asked : HasRow("tool_call_output", CallId(c))' => runs'[c] > 0
  BY <1>2, Zenon DEF RowsFit, AllCalls
<1>8. \A c \in Approvals : HasRow("tool_call", CallId(c))' => runs'[c] > 0
  <2>1. Approvals \subseteq Asked
    BY DEF Asked
  <2>2. QED
    BY <1>2, <2>1, Zenon DEF RowsFit
<1>9. QED
  BY <1>1, <1>3, <1>5, <1>6, <1>7, <1>8, Zenon DEF RowsFit

\* No new rows.
LEMMA RowsStay ==
  ASSUME TurnShape, RowsFit, backend' = backend, called \subseteq called', UNCHANGED <<toolRows, runs>>
  PROVE  RowsFit'
<1>1. Adds({})
  BY DEF Adds, TurnShape, RowsFit
<1>2. QED
  BY <1>1, RowsFitKept

-----------------------------------------------------------------------------
\* The stream without its first event.
Shifted ==
  /\ stream' \in Seq(Events) /\ Len(stream') = Len(stream) - 1 /\ Len(stream) \in Nat \ {0} /\ Len(stream') \in Nat
  /\ stream[1] \in Events
  /\ DOMAIN stream = 1 .. Len(stream) /\ DOMAIN stream' = 1 .. Len(stream')
  /\ \A i \in 1 .. Len(stream') : i + 1 \in 1 .. Len(stream) /\ stream'[i] = stream[i + 1] /\ stream'[i] \in Events

LEMMA ShiftedStream ==
  ASSUME TurnShape, Next1
  PROVE  Shifted /\ Head(stream) = stream[1]
<1>1. stream \in Seq(Events) /\ stream # <<>> /\ stream' = Tail(stream)
  BY DEF TurnShape, Next1
<1>2. Len(stream) \in Nat \ {0} /\ stream' \in Seq(Events) /\ Len(stream') = Len(stream) - 1
  BY <1>1
<1>3. \A i \in 1 .. Len(stream') : i + 1 \in 1 .. Len(stream) /\ stream'[i] = stream[i + 1]
  BY <1>1, <1>2
<1>4. \A i \in 1 .. Len(stream) : stream[i] \in Events
  BY <1>1
<1>5. QED
  BY <1>1, <1>2, <1>3, <1>4 DEF Shifted

LEMMA StreamTaken ==
  ASSUME TurnShape, StreamFits, Shifted, UNCHANGED <<backend, remote>>,
         \A e \in Events : EventFits(e) /\ Follow(stream[1], e) => EventFits(e)'
  PROVE  StreamFits'
<1>1. ASSUME NEW i \in 1 .. Len(stream')
      PROVE  EventFits(stream[i + 1]) /\ Follow(stream[1], stream[i + 1]) /\ IdleFits(i)'
  <2>1. /\ i + 1 \in 1 .. Len(stream) /\ 1 \in 1 .. Len(stream) /\ stream'[i] = stream[i + 1] /\ stream[i + 1] \in Events
        /\ DOMAIN stream = 1 .. Len(stream) /\ 1 < i + 1
    BY DEF Shifted
  <2>2. IdleFits(i + 1) /\ Follow(stream[1], stream[i + 1])
    BY <2>1 DEF StreamFits
  <2>3. stream[i + 1] \in ToSet(stream)
    BY <2>1 DEF ToSet
  <2>4. IdleFits(i)'
    BY <2>1, <2>2 DEF IdleFits, Shifted
  <2>5. QED
    BY <2>2, <2>3, <2>4 DEF StreamFits
<1>2. ASSUME NEW i \in 1 .. Len(stream'), NEW j \in 1 .. Len(stream'), i < j
      PROVE  Follow(stream'[i], stream'[j])
  <2>1. /\ i + 1 \in DOMAIN stream /\ stream'[i] = stream[i + 1] /\ j + 1 \in DOMAIN stream /\ stream'[j] = stream[j + 1]
        /\ i + 1 < j + 1
    BY <1>2 DEF Shifted
  <2>2. QED
    BY <2>1 DEF StreamFits
<1>3. \A e \in ToSet(stream') : EventFits(e)'
  <2> SUFFICES ASSUME NEW e \in ToSet(stream') PROVE EventFits(e)'
    OBVIOUS
  <2>1. PICK i \in 1 .. Len(stream') : stream'[i] = e
    BY DEF ToSet, Shifted
  <2>2. e = stream[i + 1] /\ e \in Events
    BY <2>1 DEF Shifted
  <2>3. QED
    BY <1>1, <2>2
<1>4. DOMAIN stream' = 1 .. Len(stream')
  BY DEF Shifted
<1>5. QED
  BY <1>1, <1>2, <1>3, <1>4 DEF StreamFits

\* The stream with more events at its end.
LEMMA StreamGrown ==
  ASSUME TurnShape, StreamFits, NEW t \in Seq(Events), stream' = stream \o t,
         UNCHANGED <<backend, turnDone>>, remote = "working",
         \A e \in Events : EventFits(e) => EventFits(e)',
         \A i \in DOMAIN t : EventFits(t[i])',
         \A i \in DOMAIN t : t[i].type = "idle" => i = Len(t) /\ remote' \in {"done", "failed"},
         \A i, j \in DOMAIN t : i < j => Follow(t[i], t[j]),
         \A e \in Events, j \in DOMAIN t : EventFits(e) => Follow(e, t[j])
  PROVE  StreamFits'
<1> DEFINE n == Len(stream)
           m == Len(t)
<1>1. /\ n \in Nat /\ m \in Nat /\ DOMAIN stream = 1 .. n /\ DOMAIN t = 1 .. m /\ DOMAIN stream' = 1 .. n + m
      /\ Len(stream') = n + m
      /\ \A i \in 1 .. n : stream'[i] = stream[i] /\ stream[i] \in Events
      /\ \A i \in 1 .. n + m : i \notin 1 .. n => i - n \in 1 .. m /\ stream'[i] = t[i - n]
  BY DEF TurnShape
<1>2. \A i \in 1 .. n : EventFits(stream[i])
  BY <1>1, Zenon DEF StreamFits, ToSet
<1>3. ASSUME NEW i \in 1 .. n + m PROVE IdleFits(i)'
  <2>1. CASE i \in 1 .. n
    BY <1>1, <2>1 DEF IdleFits, StreamFits
  <2>2. CASE i \notin 1 .. n
    <3>1. PICK j \in 1 .. m : j = i - n
      BY <1>1, <2>2
    <3>2. stream'[i] = t[j] /\ (t[j].type = "idle" => j = m /\ remote' \in {"done", "failed"})
      BY <1>1, <2>2, <3>1
    <3>3. t[j].type = "idle" => i = Len(stream')
      BY <1>1, <3>1, <3>2
    <3>4. QED
      BY <3>2, <3>3 DEF IdleFits
  <2>3. QED
    BY <2>1, <2>2
<1>4. \A e \in ToSet(stream') : EventFits(e)'
  <2> SUFFICES ASSUME NEW e \in ToSet(stream') PROVE EventFits(e)'
    OBVIOUS
  <2>1. PICK i \in 1 .. n + m : stream'[i] = e
    BY <1>1, Zenon DEF ToSet
  <2>2. CASE i \in 1 .. n
    BY <1>1, <1>2, <2>1, <2>2
  <2>3. CASE i \notin 1 .. n
    <3>1. PICK j \in DOMAIN t : e = t[j]
      BY <1>1, <2>1, <2>3
    <3>2. QED
      BY <3>1
  <2>4. QED
    BY <2>2, <2>3
<1>5. ASSUME NEW i \in 1 .. n + m, NEW j \in 1 .. n + m, i < j
      PROVE  Follow(stream'[i], stream'[j])
  <2>1. CASE j \in 1 .. n
    <3>1. i \in 1 .. n
      BY <1>1, <1>5, <2>1
    <3>2. Follow(stream[i], stream[j])
      BY <1>1, <1>5, <2>1, <3>1 DEF StreamFits
    <3>3. QED
      BY <1>1, <2>1, <3>1, <3>2
  <2>2. CASE i \in 1 .. n /\ j \notin 1 .. n
    <3>1. EventFits(stream[i]) /\ stream[i] \in Events /\ j - n \in 1 .. m /\ stream'[j] = t[j - n] /\ stream'[i] = stream[i]
      BY <1>1, <1>2, <2>2
    <3>2. QED
      BY <1>1, <3>1
  <2>3. CASE i \notin 1 .. n
    <3>1. j \notin 1 .. n /\ i - n < j - n
      BY <1>1, <1>5, <2>3
    <3>2. QED
      BY <1>1, <2>3, <3>1
  <2>4. QED
    BY <2>1, <2>2, <2>3
<1>6. QED
  <2> HIDE DEF n, m
  <2>1. QED
    BY <1>1, <1>3, <1>4, <1>5 DEF StreamFits

\* What is still to come stays to come when nothing but the calls grow.
LEMMA FitsGrow ==
  ASSUME UNCHANGED <<backend, toolRows, answered>>, called \subseteq called', NEW e, EventFits(e)
  PROVE  EventFits(e)'
BY DEF EventFits, HasRow, StartId, CallId, Row

\* A call that was not made yet has no rows.
LEMMA NewCall ==
  ASSUME TurnShape, RowsFit, NEW c \in AllCalls \ called, NEW kind
  PROVE  ~HasRow(kind, CallId(c)) /\ ~HasRow(kind, StartId(c))
<1>1. \A id : HasRow(kind, id) => id[2] \in called
  BY DEF HasRow, RowsFit, Row
<1>2. QED
  BY <1>1, IdFacts

\* The texts before each event, when events are added.
LEMMA TextsGrown ==
  ASSUME TurnShape, TextsKept, UNCHANGED <<aborted, reply>>, NEW t \in Seq(Events), stream' = stream \o t,
         NEW w \in Nat, texts' = texts + w,
         \/ w = 1 /\ Len(t) = 1 /\ t[1].type = "text"
         \/ w = 0 /\ \A i \in DOMAIN t : t[i].type # "text"
  PROVE  TextsKept'
<1> SUFFICES ASSUME ~aborted PROVE \E k : TextsCounted(k)'
  BY DEF TextsKept
<1>1. PICK k : TextsCounted(k)
  BY DEF TextsKept
<1> DEFINE n == Len(stream)
           m == Len(t)
           l == [i \in 0 .. n + m |-> IF i <= n THEN k[i] ELSE k[n] + w]
<1>2. /\ n \in Nat /\ m \in Nat /\ Len(stream') = n + m
      /\ \A i \in 1 .. n : stream'[i] = stream[i]
      /\ \A i \in 1 .. n + m : i \notin 1 .. n => i - n \in 1 .. m /\ stream'[i] = t[i - n] /\ i > n
      /\ DOMAIN t = 1 .. m
  BY DEF TurnShape
<1>3. k \in [0 .. n -> Nat] /\ k[0] = reply /\ k[n] = texts /\ \A i \in 0 .. n : k[i] \in Nat
  BY <1>1, <1>2 DEF TextsCounted
<1>4. l \in [0 .. n + m -> Nat] /\ l[0] = reply
  BY <1>2, <1>3
<1>5. l[n + m] = texts + w
  BY <1>2, <1>3
<1>6. ASSUME NEW i \in 1 .. n + m
      PROVE  l[i] = l[i - 1] + (IF stream'[i].type = "text" THEN 1 ELSE 0)
  <2>1. CASE i \in 1 .. n
    <3>1. l[i] = k[i] /\ l[i - 1] = k[i - 1]
      BY <1>2, <2>1
    <3>2. k[i] = k[i - 1] + (IF stream[i].type = "text" THEN 1 ELSE 0)
      BY <1>1, <2>1 DEF TextsCounted
    <3>3. QED
      BY <1>2, <2>1, <3>1, <3>2
  <2>2. CASE i \notin 1 .. n
    <3>1. i - n \in 1 .. m /\ stream'[i] = t[i - n] /\ i > n /\ k[n] \in Nat
      BY <1>2, <1>3, <2>2
    <3>2. l[i] = k[n] + w
      BY <1>2, <3>1
    <3>3. CASE w = 1
      <4>1. i - n = 1 /\ t[1].type = "text"
        BY <1>2, <3>1, <3>3
      <4>2. l[i - 1] = k[n]
        BY <1>2, <4>1
      <4>3. QED
        BY <1>2, <3>1, <3>2, <3>3, <4>1, <4>2
    <3>4. CASE w = 0
      <4>1. stream'[i].type # "text"
        BY <1>2, <3>1, <3>4
      <4>2. l[i - 1] = k[n] + w
        BY <1>2, <3>1, <3>4
      <4>3. QED
        BY <3>1, <3>2, <3>4, <4>1, <4>2
    <3>5. QED
      BY <3>3, <3>4
  <2>3. QED
    BY <2>1, <2>2
<1>7. PICK h : h = l
  OBVIOUS
<1> HIDE DEF l
<1>8. /\ h \in [0 .. Len(stream') -> Nat] /\ h[0] = reply' /\ h[Len(stream')] = texts'
      /\ \A i \in 1 .. Len(stream') : h[i] = h[i - 1] + (IF stream'[i].type = "text" THEN 1 ELSE 0)
  BY <1>2, <1>4, <1>5, <1>6, <1>7
<1> HIDE DEF n, m
<1>9. TextsCounted(h)'
  BY <1>8 DEF TextsCounted
<1>10. QED
  BY <1>9

\* The calls' fate, when events are added.
LEMMA CallsGrown ==
  ASSUME TurnShape, CallsKept, UNCHANGED <<aborted, toolRows>>, NEW t \in Seq(Events), stream' = stream \o t,
         required \subseteq required',
         \A c \in called' \ called : c \in required' \/ \E i \in DOMAIN t : t[i].type = "end" /\ t[i].calls = {c}
  PROVE  CallsKept'
<1> DEFINE n == Len(stream)
           m == Len(t)
<1>1. /\ n \in Nat /\ m \in Nat /\ DOMAIN stream = 1 .. n /\ DOMAIN t = 1 .. m /\ DOMAIN stream' = 1 .. n + m
      /\ \A i \in 1 .. n : i \in 1 .. n + m /\ stream'[i] = stream[i]
      /\ \A i \in 1 .. m : i + n \in 1 .. n + m /\ stream'[i + n] = t[i]
  BY DEF TurnShape
<1>2. SUFFICES ASSUME ~aborted, NEW c \in called'
              PROVE  \/ c \in required' \/ HasRow("tool_call_output", CallId(c))
                     \/ \E i \in DOMAIN stream' : stream'[i].type = "end" /\ stream'[i].calls = {c}
  BY DEF CallsKept, HasRow, CallId
<1>3. CASE c \in called
  BY <1>1, <1>2, <1>3 DEF CallsKept
<1>4. CASE c \notin called
  <2>1. CASE c \in required'
    BY <2>1
  <2>2. CASE \E i \in DOMAIN t : t[i].type = "end" /\ t[i].calls = {c}
    <3>1. PICK i \in 1 .. m : t[i].type = "end" /\ t[i].calls = {c}
      BY <1>1, <2>2
    <3>2. i + n \in DOMAIN stream' /\ stream'[i + n] = t[i]
      BY <1>1
    <3>3. QED
      BY <3>1, <3>2
  <2>3. QED
    BY <1>4, <2>1, <2>2
<1>5. QED
  BY <1>3, <1>4

-----------------------------------------------------------------------------
\* The provider's steps: what this server holds stays.
LEMMA ProviderKeeps ==
  ASSUME TurnInv, localSide' = localSide, remote = "working", UNCHANGED turnFaults
  PROVE  AnsweredOnce' /\ HeardOut' /\ HistoryFits'
<1>1. UNCHANGED <<turn, todo, answered, aborted, history, runs>>
  BY DEF localSide
<1>2. AnsweredOnce'
  BY <1>1 DEF TurnInv, AnsweredOnce
<1>3. HeardOut'
  BY <1>1 DEF TurnInv, HeardOut
<1>4. HistoryFits'
  BY <1>1 DEF TurnInv, HistoryFits, Whole, Row
<1>5. QED
  BY <1>2, <1>3, <1>4

LEMMA WritesStep ==
  ASSUME TurnInv, AgentWrites
  PROVE  TurnInv'
<1> DEFINE t == <<Event("text", {})>>
<1>1. /\ UNCHANGED <<backend, remote, called, required, turnFaults>> /\ localSide' = localSide /\ remote = "working"
      /\ stream' = stream \o t /\ texts' = texts + 1
  BY DEF AgentWrites, Emits
<1>2. UNCHANGED <<turn, todo, answered, turnDone, reply, failed, aborted, toolRows, history, runs>>
  BY <1>1 DEF localSide
<1>3. /\ t \in Seq(Events) /\ DOMAIN t = {1} /\ Len(t) = 1 /\ t[1].type = "text" /\ t[1].calls = {}
  BY DEF Event, Events, EventTypes
<1>4. TurnShape /\ StreamFits /\ RowsFit /\ TextsKept /\ CallsKept
  BY DEF TurnInv
<1> HIDE DEF t
<1>5. stream' \in Seq(Events)
  BY <1>1, <1>3, <1>4 DEF TurnShape
<1>6. TurnShape'
  BY <1>1, <1>2, <1>4, <1>5 DEF TurnShape
<1>7. \A e \in Events : EventFits(e) => EventFits(e)'
  BY <1>1, <1>2, FitsGrow
<1>8. StreamFits'
  <2>1. \A i \in DOMAIN t : EventFits(t[i])'
    BY <1>3 DEF EventFits
  <2>2. \A e \in Events, j \in DOMAIN t : Follow(e, t[j])
    BY <1>3 DEF Follow
  <2>3. \A i \in DOMAIN t : t[i].type # "idle"
    BY <1>3
  <2>4. \A i, j \in DOMAIN t : ~(i < j)
    BY <1>3
  <2>5. QED
    BY <1>1, <1>2, <1>3, <1>4, <1>7, <2>1, <2>2, <2>3, <2>4, StreamGrown
<1>9. RowsFit'
  BY <1>1, <1>2, <1>4, RowsStay
<1>10. TextsKept'
  BY <1>1, <1>2, <1>3, <1>4, TextsGrown
<1>11. CallsKept'
  BY <1>1, <1>2, <1>3, <1>4, CallsGrown
<1>12. QED
  BY <1>1, <1>6, <1>8, <1>9, <1>10, <1>11, ProviderKeeps DEF TurnInv

LEMMA EndsStep ==
  ASSUME TurnInv, AgentEnds
  PROVE  TurnInv'
<1>1. PICK how \in {"done", "failed"} : remote' = how /\ Emits(<<Event(how, {}), Event("idle", {})>>)
  BY DEF AgentEnds
<1> DEFINE t == <<Event(how, {}), Event("idle", {})>>
<1>2. /\ UNCHANGED <<backend, called, required, texts, turnFaults>> /\ localSide' = localSide /\ remote = "working"
      /\ stream' = stream \o t /\ required = {}
  BY <1>1 DEF AgentEnds, Emits
<1>3. UNCHANGED <<turn, todo, answered, turnDone, reply, failed, aborted, toolRows, history, runs>>
  BY <1>2 DEF localSide
<1>4. /\ t \in Seq(Events) /\ DOMAIN t = {1, 2} /\ Len(t) = 2 /\ t[1].type = how /\ t[2].type = "idle"
      /\ t[1].calls = {} /\ t[2].calls = {}
  BY DEF Event, Events, EventTypes
<1>5. TurnShape /\ StreamFits /\ RowsFit /\ TextsKept /\ CallsKept
  BY DEF TurnInv
<1> HIDE DEF t
<1>6. stream' \in Seq(Events)
  BY <1>2, <1>4, <1>5 DEF TurnShape
<1>7. TurnShape'
  BY <1>1, <1>2, <1>3, <1>5, <1>6 DEF TurnShape
<1>8. \A e \in Events : EventFits(e) => EventFits(e)'
  BY <1>2, <1>3, FitsGrow
<1>9. StreamFits'
  <2>1. \A i \in DOMAIN t : EventFits(t[i])'
    BY <1>4 DEF EventFits
  <2>2. \A e \in Events, j \in DOMAIN t : Follow(e, t[j])
    BY <1>4 DEF Follow
  <2>3. \A i \in DOMAIN t : t[i].type = "idle" => i = Len(t) /\ remote' \in {"done", "failed"}
    BY <1>1, <1>4
  <2>4. \A i, j \in DOMAIN t : i < j => Follow(t[i], t[j])
    BY <1>4 DEF Follow
  <2>5. QED
    BY <1>2, <1>3, <1>4, <1>5, <1>8, <2>1, <2>2, <2>3, <2>4, StreamGrown
<1>10. RowsFit'
  BY <1>2, <1>3, <1>5, RowsStay
<1>11. TextsKept'
  <2>1. \A i \in DOMAIN t : t[i].type # "text"
    BY <1>4
  <2>2. 0 \in Nat /\ texts' = texts + 0
    BY <1>2, <1>5 DEF TurnShape
  <2>3. QED
    BY <1>2, <1>3, <1>4, <1>5, <2>1, <2>2, TextsGrown
<1>12. CallsKept'
  BY <1>2, <1>3, <1>4, <1>5, CallsGrown
<1>13. QED
  BY <1>2, <1>7, <1>9, <1>10, <1>11, <1>12, ProviderKeeps DEF TurnInv

\* What a call emits: its start, unless it waits for the user's approval, and
\* its end, or what this server is to answer.
Announces(c, t) ==
  /\ t \in Seq(Events) /\ DOMAIN t = 1 .. Len(t) /\ Len(t) \in {1, 2}
  /\ Len(t) = 2 => t[1].type = "start" /\ t[1].calls = {c} /\ c \notin Approvals
  /\ LET last == t[Len(t)] IN
     \/ last.type = "end" /\ last.calls = {c} /\ c \in Hosted
     \/ last.type = "use" /\ last.calls = {c} /\ c \in Own /\ backend = "claude"
     \/ last.type = "requires" /\ last.calls = required' /\ backend = "openai" /\ c \in Asked

LEMMA CallAnnounced ==
  ASSUME TurnShape, NEW c \in AllCalls, AgentCalls(c)
  PROVE  \E t : Announces(c, t) /\ stream' = stream \o t
<1>1. required' \subseteq AllCalls /\ {c} \subseteq AllCalls
  BY DEF AgentCalls, TurnShape, AllCalls
<1>2. /\ Event("start", {c}) \in Events /\ Event("end", {c}) \in Events /\ Event("use", {c}) \in Events
      /\ Event("requires", required') \in Events
  BY <1>1 DEF Event, Events, EventTypes
<1>3. CASE c \in Hosted
  <2> DEFINE t == <<Event("start", {c}), Event("end", {c})>>
  <2>1. c \notin Approvals
    BY <1>3, TurnAssumption
  <2>2. stream' = stream \o t
    BY <1>3, <2>1 DEF AgentCalls, Emits
  <2>3. Announces(c, t)
    BY <1>2, <1>3, <2>1 DEF Announces, Event
  <2>4. QED
    BY <2>2, <2>3
<1>4. CASE c \in Approvals
  <2> DEFINE t == <<Event("requires", required')>>
  <2>1. c \notin Hosted /\ backend = "openai" /\ c \in Asked
    BY <1>4, TurnAssumption DEF AgentCalls, Asked
  <2>2. stream' = stream \o t
    BY <1>4, <2>1 DEF AgentCalls, Emits
  <2>3. Announces(c, t)
    BY <1>2, <1>4, <2>1 DEF Announces, Event
  <2>4. QED
    BY <2>2, <2>3
<1>5. CASE c \in Own /\ backend = "openai"
  <2> DEFINE t == <<Event("start", {c}), Event("requires", required')>>
  <2>1. c \notin Hosted /\ c \notin Approvals /\ c \in Asked
    BY <1>5, TurnAssumption DEF Asked
  <2>2. stream' = stream \o t
    BY <1>5, <2>1 DEF AgentCalls, Emits
  <2>3. Announces(c, t)
    BY <1>2, <1>5, <2>1 DEF Announces, Event
  <2>4. QED
    BY <2>2, <2>3
<1>6. CASE c \in Own /\ backend = "claude"
  <2> DEFINE t == <<Event("start", {c}), Event("use", {c})>>
  <2>1. c \notin Hosted /\ c \notin Approvals
    BY <1>6, TurnAssumption
  <2>2. stream' = stream \o t
    BY <1>6, <2>1 DEF AgentCalls, Emits
  <2>3. Announces(c, t)
    BY <1>2, <1>6, <2>1 DEF Announces, Event
  <2>4. QED
    BY <2>2, <2>3
<1>7. QED
  BY <1>3, <1>4, <1>5, <1>6 DEF AllCalls, Asked, TurnShape

LEMMA CallsStep ==
  ASSUME TurnInv, NEW c \in AllCalls, AgentCalls(c)
  PROVE  TurnInv'
<1>1. TurnShape /\ StreamFits /\ RowsFit /\ TextsKept /\ CallsKept
  BY DEF TurnInv
<1>2. PICK t : Announces(c, t) /\ stream' = stream \o t
  BY <1>1, CallAnnounced
<1>3. /\ UNCHANGED <<backend, remote, texts, turnFaults>> /\ localSide' = localSide /\ remote = "working"
      /\ called' = called \union {c} /\ required' = required \union ({c} \intersect Asked) /\ c \notin called
  BY DEF AgentCalls
<1>4. UNCHANGED <<turn, todo, answered, turnDone, reply, failed, aborted, toolRows, history, runs>>
  BY <1>3 DEF localSide
<1>5. t \in Seq(Events) /\ DOMAIN t = 1 .. Len(t) /\ Len(t) \in {1, 2}
  BY <1>2 DEF Announces
<1>6. \A i \in DOMAIN t : t[i].type \in {"start", "end", "use", "requires"}
  <2> SUFFICES ASSUME NEW i \in DOMAIN t PROVE t[i].type \in {"start", "end", "use", "requires"}
    OBVIOUS
  <2>1. (i = 1 /\ Len(t) = 2) \/ i = Len(t)
    <3>1. Len(t) = 1 => 1 .. Len(t) = {1}
      OBVIOUS
    <3>2. Len(t) = 2 => 1 .. Len(t) = {1, 2}
      OBVIOUS
    <3>3. QED
      BY <1>5, <3>1, <3>2
  <2>2. QED
    BY <1>2, <2>1 DEF Announces
<1>7. TurnShape'
  <2>1. stream' \in Seq(Events)
    BY <1>1, <1>2, <1>5 DEF TurnShape
  <2>2. required' \subseteq called' \intersect Asked /\ called' \subseteq AllCalls
    BY <1>1, <1>3 DEF TurnShape
  <2>3. QED
    BY <1>1, <1>3, <1>4, <2>1, <2>2 DEF TurnShape
<1>8. \A e \in Events : EventFits(e) => EventFits(e)'
  BY <1>3, <1>4, FitsGrow
<1>9. /\ \A kind : ~HasRow(kind, CallId(c)) /\ ~HasRow(kind, StartId(c))
      /\ c \notin answered
  BY <1>1, <1>3, NewCall DEF TurnShape
<1>10. /\ \A kind : ~HasRow(kind, CallId(c))' /\ ~HasRow(kind, StartId(c))'
      /\ c \notin answered'
  BY <1>3, <1>4, <1>9 DEF HasRow, CallId, StartId
<1>11. \A i \in DOMAIN t : EventFits(t[i])'
  <2>1. /\ c \in called' /\ required' \subseteq called' /\ required' \subseteq Asked
    BY <1>3, <1>7 DEF TurnShape
  <2>2. Len(t) = 2 => EventFits(t[1])'
    BY <1>2, <1>10, <2>1, Zenon DEF Announces, EventFits
  <2>3. EventFits(t[Len(t)])'
    BY <1>2, <1>3, <1>10, <2>1 DEF Announces, EventFits
  <2>4. QED
    BY <1>5, <2>2, <2>3
<1>12. \A e \in Events, j \in DOMAIN t : EventFits(e) => Follow(e, t[j])
  <2> SUFFICES ASSUME NEW e \in Events, NEW j \in DOMAIN t, EventFits(e) PROVE Follow(e, t[j])
    OBVIOUS
  <2>1. e.type \in {"start", "end", "use"} => e.calls # {c}
    BY <1>3 DEF EventFits
  <2>2. t[j].type \in {"start", "end", "use"} => t[j].calls = {c}
    BY <1>2, <1>5 DEF Announces
  <2>3. QED
    BY <2>1, <2>2 DEF Follow
<1>13. StreamFits'
  <2>1. \A i \in DOMAIN t : t[i].type # "idle"
    BY <1>6
  <2>2. \A i, j \in DOMAIN t : i < j => Follow(t[i], t[j])
    BY <1>2, <1>5 DEF Announces, Follow
  <2>3. QED
    BY <1>1, <1>2, <1>3, <1>4, <1>5, <1>8, <1>11, <1>12, <2>1, <2>2, StreamGrown
<1>14. RowsFit'
  BY <1>1, <1>3, <1>4, RowsStay
<1>15. TextsKept'
  <2>1. \A i \in DOMAIN t : t[i].type # "text"
    BY <1>6
  <2>2. 0 \in Nat /\ texts' = texts + 0
    BY <1>1, <1>3 DEF TurnShape
  <2>3. QED
    BY <1>1, <1>2, <1>3, <1>4, <1>5, <2>1, <2>2, TextsGrown
<1>16. CallsKept'
  <2>1. \A d \in called' \ called : d \in required' \/ \E i \in DOMAIN t : t[i].type = "end" /\ t[i].calls = {d}
    <3>1. CASE c \in Asked
      BY <1>3, <3>1
    <3>2. CASE c \notin Asked
      <4>1. c \in Hosted /\ c \notin Own
        BY <3>2 DEF AllCalls, Asked
      <4>2. Len(t) \in DOMAIN t /\ t[Len(t)].type = "end" /\ t[Len(t)].calls = {c}
        BY <1>2, <1>5, <3>2, <4>1 DEF Announces
      <4>3. QED
        BY <1>3, <4>2
    <3>3. QED
      BY <3>1, <3>2
  <2>2. QED
    BY <1>1, <1>2, <1>3, <1>4, <1>5, <2>1, CallsGrown
<1>17. QED
  BY <1>3, <1>7, <1>13, <1>14, <1>15, <1>16, ProviderKeeps DEF TurnInv

-----------------------------------------------------------------------------
\* Taking the first event.
LEMMA TextsTaken ==
  ASSUME TextsKept, Shifted, UNCHANGED <<aborted, texts>>,
         reply' = reply + (IF stream[1].type = "text" THEN 1 ELSE 0), reply \in Nat
  PROVE  TextsKept'
<1> SUFFICES ASSUME ~aborted PROVE \E k : TextsCounted(k)'
  BY DEF TextsKept
<1>1. PICK k : TextsCounted(k)
  BY DEF TextsKept
<1>2. PICK h : h = [i \in 0 .. Len(stream') |-> k[i + 1]]
  OBVIOUS
<1>3. /\ Len(stream) \in Nat \ {0} /\ Len(stream') = Len(stream) - 1
      /\ \A i \in 1 .. Len(stream') : i + 1 \in 1 .. Len(stream) /\ stream'[i] = stream[i + 1]
  BY DEF Shifted
<1>4. /\ \A i \in 0 .. Len(stream) : k[i] \in Nat
      /\ k[0] = reply /\ k[Len(stream)] = texts
      /\ \A i \in 1 .. Len(stream) : k[i] = k[i - 1] + (IF stream[i].type = "text" THEN 1 ELSE 0)
  BY <1>1 DEF TextsCounted
<1>5. h \in [0 .. Len(stream') -> Nat]
  <2>1. \A i \in 0 .. Len(stream') : i + 1 \in 0 .. Len(stream)
    BY <1>3
  <2>2. QED
    BY <1>2, <1>4, <2>1
<1>6. h[0] = reply'
  <2>1. 1 \in 1 .. Len(stream) /\ 0 \in 0 .. Len(stream')
    BY <1>3
  <2>2. h[0] = k[1] /\ k[1] = k[0] + (IF stream[1].type = "text" THEN 1 ELSE 0)
    BY <1>2, <1>4, <2>1
  <2>3. QED
    BY <1>4, <2>2
<1>7. h[Len(stream')] = texts'
  BY <1>2, <1>3, <1>4
<1>8. ASSUME NEW i \in 1 .. Len(stream')
      PROVE  h[i] = h[i - 1] + (IF stream'[i].type = "text" THEN 1 ELSE 0)
  <2>1. i + 1 \in 1 .. Len(stream) /\ stream'[i] = stream[i + 1] /\ i \in 0 .. Len(stream') /\ i - 1 \in 0 .. Len(stream')
    BY <1>3
  <2>2. h[i] = k[i + 1] /\ h[i - 1] = k[i]
    BY <1>2, <2>1
  <2>3. k[i + 1] = k[i] + (IF stream[i + 1].type = "text" THEN 1 ELSE 0)
    BY <1>4, <2>1
  <2>4. QED
    BY <2>1, <2>2, <2>3
<1>9. TextsCounted(h)'
  BY <1>5, <1>6, <1>7, <1>8 DEF TextsCounted
<1>10. QED
  BY <1>9

LEMMA CallsTaken ==
  ASSUME CallsKept, Shifted, UNCHANGED <<aborted, called, required>>,
         \A c \in called : HasRow("tool_call_output", CallId(c)) => HasRow("tool_call_output", CallId(c))',
         \A c \in called : stream[1].type = "end" /\ stream[1].calls = {c} => HasRow("tool_call_output", CallId(c))'
  PROVE  CallsKept'
<1>1. SUFFICES ASSUME ~aborted, NEW c \in called
               PROVE  \/ c \in required' \/ HasRow("tool_call_output", CallId(c))'
                      \/ \E i \in DOMAIN stream' : stream'[i].type = "end" /\ stream'[i].calls = {c}
  BY DEF CallsKept
<1>2. CASE \E i \in DOMAIN stream : stream[i].type = "end" /\ stream[i].calls = {c}
  <2>1. PICK i \in 1 .. Len(stream) : stream[i].type = "end" /\ stream[i].calls = {c}
    BY <1>2 DEF Shifted
  <2>2. CASE i = 1
    BY <2>1, <2>2
  <2>3. CASE i # 1
    <3>1. i - 1 \in 1 .. Len(stream') /\ (i - 1) + 1 = i
      BY <2>1, <2>3 DEF Shifted
    <3>2. i - 1 \in DOMAIN stream' /\ stream'[i - 1] = stream[i]
      BY <3>1 DEF Shifted
    <3>3. QED
      BY <2>1, <3>2
  <2>4. QED
    BY <2>2, <2>3
<1>3. QED
  BY <1>1, <1>2 DEF CallsKept

\* A loop that goes on.
LEMMA LoopGoesOn ==
  ASSUME TurnInv, turn \in {"open", "loop", "act"}, turn' \in {"loop", "act"}, UNCHANGED history
  PROVE  HeardOut' /\ HistoryFits'
BY DEF TurnInv, HeardOut, HistoryFits, Whole, Row

LEMMA TextStep ==
  ASSUME TurnInv, TakeText
  PROVE  TurnInv'
<1>1. TurnShape /\ StreamFits /\ RowsFit /\ AnsweredOnce /\ TextsKept /\ CallsKept
  BY DEF TurnInv
<1>2. Next1 /\ turn = "loop" /\ Shifted /\ stream[1].type = "text" /\ reply' = reply + 1
  <2>1. Next1 /\ Head(stream).type = "text" /\ reply' = reply + 1
    BY DEF TakeText, Take
  <2>2. QED
    BY <1>1, <2>1, ShiftedStream DEF Next1
<1>3. UNCHANGED <<backend, remote, called, required, texts, turn, todo, answered, turnDone, failed, aborted,
                  toolRows, history, turnFaults, runs>>
  BY DEF TakeText, remoteSide
<1>4. TurnShape'
  BY <1>1, <1>2, <1>3 DEF TurnShape, Shifted
<1>5. StreamFits'
  BY <1>1, <1>2, <1>3, FitsGrow, StreamTaken
<1>6. RowsFit'
  BY <1>1, <1>3, RowsStay
<1>7. AnsweredOnce'
  BY <1>1, <1>3 DEF AnsweredOnce
<1>8. TextsKept'
  BY <1>1, <1>2, <1>3, TextsTaken DEF TurnShape
<1>9. CallsKept'
  BY <1>1, <1>2, <1>3, CallsTaken DEF HasRow, CallId
<1>10. QED
  BY <1>2, <1>3, <1>4, <1>5, <1>6, <1>7, <1>8, <1>9, LoopGoesOn DEF TurnInv

LEMMA OutcomeStep ==
  ASSUME TurnInv, TakeOutcome
  PROVE  TurnInv'
<1>1. TurnShape /\ StreamFits /\ RowsFit /\ AnsweredOnce /\ TextsKept /\ CallsKept
  BY DEF TurnInv
<1>2. Next1 /\ turn = "loop" /\ Shifted /\ stream[1].type \in {"done", "failed"}
  <2>1. Next1 /\ Head(stream).type \in {"done", "failed"}
    BY DEF TakeOutcome, Take
  <2>2. QED
    BY <1>1, <2>1, ShiftedStream DEF Next1
<1>3. /\ UNCHANGED <<backend, remote, called, required, texts, turn, todo, answered, reply, aborted,
                     toolRows, history, turnFaults, runs>>
      /\ turnDone' = TRUE /\ failed' \in BOOLEAN
  BY DEF TakeOutcome, remoteSide
<1>4. TurnShape'
  BY <1>1, <1>2, <1>3 DEF TurnShape, Shifted
<1>5. StreamFits'
  BY <1>1, <1>2, <1>3, FitsGrow, StreamTaken
<1>6. RowsFit'
  BY <1>1, <1>3, RowsStay
<1>7. AnsweredOnce'
  BY <1>1, <1>3 DEF AnsweredOnce
<1>8. TextsKept'
  BY <1>1, <1>2, <1>3, TextsTaken DEF TurnShape
<1>9. CallsKept'
  BY <1>1, <1>2, <1>3, CallsTaken DEF HasRow, CallId
<1>10. QED
  BY <1>2, <1>3, <1>4, <1>5, <1>6, <1>7, <1>8, <1>9, LoopGoesOn DEF TurnInv

\* The idle that ends the loop is the last event of a turn that is over.
LEMMA IdleStep ==
  ASSUME TurnInv, TakeIdle \/ TakeStatusIdle
  PROVE  TurnInv'
<1>1. TurnShape /\ StreamFits /\ RowsFit /\ AnsweredOnce /\ TextsKept /\ CallsKept /\ HistoryFits
  BY DEF TurnInv
<1>2. /\ Next1 /\ turn = "loop" /\ Shifted /\ stream[1].type = "idle"
      /\ turn' \in {"loop", "rows"} /\ (turn' = "rows" => turnDone \/ backend = "claude")
  <2>1. /\ Next1 /\ Head(stream).type = "idle" /\ turn' \in {"loop", "rows"}
        /\ turn' = "rows" => turnDone \/ backend = "claude"
    BY DEF TakeIdle, TakeStatusIdle, Idled, Take
  <2>2. QED
    BY <1>1, <2>1, ShiftedStream DEF Next1
<1>3. UNCHANGED <<backend, remote, called, required, texts, todo, answered, reply, turnDone, failed, aborted,
                  toolRows, history, turnFaults, runs>>
  BY DEF TakeIdle, TakeStatusIdle, Idled, remoteSide
<1>4. TurnShape'
  BY <1>1, <1>2, <1>3 DEF TurnShape, Shifted, Stages
<1>5. StreamFits'
  BY <1>1, <1>2, <1>3, FitsGrow, StreamTaken
<1>6. RowsFit'
  BY <1>1, <1>3, RowsStay
<1>7. AnsweredOnce'
  BY <1>1, <1>3 DEF AnsweredOnce
<1>8. TextsKept'
  BY <1>1, <1>2, <1>3, TextsTaken DEF TurnShape
<1>9. CallsKept'
  BY <1>1, <1>2, <1>3, CallsTaken DEF HasRow, CallId
<1>10. HistoryFits'
  BY <1>1, <1>2, <1>3 DEF HistoryFits, Whole, Row
<1>11. HeardOut'
  <2>1. SUFFICES ASSUME turn' = "rows" PROVE stream' = <<>> /\ remote' \in {"done", "failed"}
    BY <1>2 DEF HeardOut
  <2>2. IdleFits(1)
    BY <1>1, <1>2 DEF StreamFits, Shifted
  <2>3. 1 = Len(stream) /\ remote \in {"done", "failed"}
    BY <1>1, <1>2, <2>1, <2>2 DEF IdleFits, TurnShape
  <2>4. Len(stream') = 0 /\ stream' \in Seq(Events)
    <3>1. Len(stream') = Len(stream) - 1 /\ stream' \in Seq(Events)
      BY <1>2 DEF Shifted
    <3>2. QED
      BY <2>3, <3>1
  <2>5. QED
    BY <1>3, <2>3, <2>4
<1>12. QED
  BY <1>4, <1>5, <1>6, <1>7, <1>8, <1>9, <1>10, <1>11 DEF TurnInv

\* The event at the head is of one call.
LEMMA HeadOfCall ==
  ASSUME TurnInv, Next1, stream[1].type \in {"start", "end", "use"}, NEW d \in stream[1].calls
  PROVE  /\ stream[1].calls = {d} /\ d \in called /\ d \in AllCalls /\ EventFits(stream[1])
         /\ \A e \in Events : /\ Follow(stream[1], e) /\ e.type \in {"start", "end", "use"} /\ EventFits(e)
                              => (stream[1].type = "start" /\ e.type # "start") \/ d \notin e.calls
<1>1. TurnShape /\ StreamFits /\ Shifted
  BY ShiftedStream DEF TurnInv
<1>2. stream[1] \in ToSet(stream) /\ EventFits(stream[1])
  BY <1>1 DEF StreamFits, Shifted, ToSet
<1>3. stream[1].calls = {d} /\ d \in called /\ d \in AllCalls
  BY <1>1, <1>2 DEF EventFits, TurnShape
<1>4. ASSUME NEW e \in Events, Follow(stream[1], e), e.type \in {"start", "end", "use"}, EventFits(e), d \in e.calls
      PROVE  stream[1].type = "start" /\ e.type # "start"
  <2>1. e.calls = {d}
    BY <1>4 DEF EventFits
  <2>2. QED
    BY <1>3, <1>4, <2>1 DEF Follow
<1>5. QED
  BY <1>2, <1>3, <1>4

LEMMA StartStep ==
  ASSUME TurnInv, TakeStart \/ TakeToolUse
  PROVE  TurnInv'
<1>1. TurnShape /\ StreamFits /\ RowsFit /\ AnsweredOnce /\ TextsKept /\ CallsKept
  BY DEF TurnInv
<1>2. PICK c \in Head(stream).calls : Started(StartId(c))
  BY DEF TakeStart, TakeToolUse, ShowStart, Calls
<1>3. Next1 /\ turn = "loop" /\ Shifted /\ stream[1].type = "start" /\ c \in stream[1].calls
  <2>1. Next1 /\ Head(stream).type = "start"
    BY DEF TakeStart, TakeToolUse, ShowStart, Take
  <2>2. QED
    BY <1>1, <1>2, <2>1, ShiftedStream DEF Next1
<1>4. UNCHANGED <<backend, remote, called, required, texts, turn, todo, answered, turnDone, reply, failed, aborted,
                  history, turnFaults, runs>>
  BY DEF TakeStart, TakeToolUse, ShowStart, remoteSide
<1>5. /\ c \in called /\ c \in AllCalls /\ c \notin Approvals /\ ~HasRow("tool_call", StartId(c))
      /\ \A e \in Events : Follow(stream[1], e) /\ e.type = "start" /\ EventFits(e) => c \notin e.calls
  <2>1. /\ c \in called /\ c \in AllCalls /\ EventFits(stream[1])
        /\ \A e \in Events : Follow(stream[1], e) /\ e.type = "start" /\ EventFits(e) => c \notin e.calls
    BY <1>3, HeadOfCall
  <2>2. QED
    BY <1>3, <2>1 DEF EventFits
<1> DEFINE r == Row("tool_call", StartId(c))
<1>6. Adds({r})
  BY <1>1, <1>2, <1>5, StartedRows
<1>7. \A kind, id : HasRow(kind, id)' <=> HasRow(kind, id) \/ Row(kind, id) = r
  BY <1>6, RowIsThere DEF Adds
<1>8. \A d : StartId(d)' = StartId(d) /\ CallId(d)' = CallId(d)
  BY <1>4 DEF StartId, CallId
<1>9. \A d \in AllCalls : /\ Row("tool_call", StartId(d)) = r => d = c
                          /\ Row("tool_call", CallId(d)) = r => d = c
                          /\ Row("tool_call_output", CallId(d)) # r
                          /\ Row("tool_call_output", <<"item", d>>) # r
  BY <1>5, IdFacts
<1>10. r \in ToolRows /\ r[2][2] \in called
  BY <1>5, IdFacts
<1> HIDE DEF r
<1>11. TurnShape'
  BY <1>1, <1>3, <1>4, <1>6 DEF TurnShape, Shifted, Adds
<1>12. StreamFits'
  <2>1. ASSUME NEW e \in Events, EventFits(e), Follow(stream[1], e)
        PROVE  EventFits(e)'
    <3>1. e.calls \subseteq AllCalls
      BY DEF Events
    <3>2. e.type = "start" => \A d \in e.calls : ~HasRow("tool_call", StartId(d))'
      BY <1>5, <1>7, <1>8, <1>9, <2>1, <3>1 DEF EventFits
    <3>3. e.type = "end" => \A d \in e.calls : ~HasRow("tool_call_output", CallId(d))'
      BY <1>7, <1>8, <1>9, <2>1, <3>1 DEF EventFits
    <3>4. QED
      BY <1>4, <2>1, <3>2, <3>3, Zenon DEF EventFits
  <2>2. QED
    BY <1>1, <1>3, <1>4, <2>1, StreamTaken
<1>13. RowsFit'
  <2>1. \A d \in Approvals : Row("tool_call", CallId(d)) \notin {r}
    BY <1>5, <1>9 DEF AllCalls, Asked
  <2>2. \A d \in AllCalls : Row("tool_call_output", CallId(d)) \notin {r} /\ Row("tool_call_output", <<"item", d>>) \notin {r}
    BY <1>9
  <2>3. Asked \subseteq AllCalls
    BY DEF AllCalls
  <2>4. QED
    BY <1>1, <1>4, <1>6, <1>10, <2>1, <2>2, <2>3, RowsFitKept
<1>14. AnsweredOnce'
  BY <1>1, <1>4 DEF AnsweredOnce
<1>15. TextsKept'
  BY <1>1, <1>3, <1>4, TextsTaken DEF TurnShape
<1>16. CallsKept'
  BY <1>1, <1>3, <1>4, <1>7, <1>8, CallsTaken
<1>17. QED
  BY <1>3, <1>4, <1>11, <1>12, <1>13, <1>14, <1>15, <1>16, LoopGoesOn DEF TurnInv

LEMMA EndStep ==
  ASSUME TurnInv, TakeEnd \/ TakeToolResult
  PROVE  TurnInv'
<1>1. TurnShape /\ StreamFits /\ RowsFit /\ AnsweredOnce /\ TextsKept /\ CallsKept
  BY DEF TurnInv
<1>2. PICK c \in Head(stream).calls : EndedRow(CallId(c))
  BY DEF TakeEnd, TakeToolResult, ShowEnd, Calls
<1>3. Next1 /\ turn = "loop" /\ Shifted /\ stream[1].type = "end" /\ c \in stream[1].calls
  <2>1. Next1 /\ Head(stream).type = "end"
    BY DEF TakeEnd, TakeToolResult, ShowEnd, Take
  <2>2. QED
    BY <1>1, <1>2, <2>1, ShiftedStream DEF Next1
<1>4. UNCHANGED <<backend, remote, called, required, texts, turn, todo, answered, turnDone, reply, failed, aborted,
                  history, turnFaults, runs>>
  BY DEF TakeEnd, TakeToolResult, ShowEnd, remoteSide
<1>5. /\ c \in called /\ c \in AllCalls /\ c \in Hosted /\ ~HasRow("tool_call_output", CallId(c))
      /\ stream[1].calls = {c}
      /\ \A e \in Events : Follow(stream[1], e) /\ e.type \in {"start", "end"} /\ EventFits(e) => c \notin e.calls
  <2>1. /\ c \in called /\ c \in AllCalls /\ EventFits(stream[1]) /\ stream[1].calls = {c}
        /\ \A e \in Events : Follow(stream[1], e) /\ e.type \in {"start", "end"} /\ EventFits(e) => c \notin e.calls
    BY <1>3, HeadOfCall
  <2>2. QED
    BY <1>3, <2>1 DEF EventFits
<1> DEFINE q == Row("tool_call", CallId(c))
           r == Row("tool_call_output", CallId(c))
<1>6. Adds({q, r})
  BY <1>1, <1>2, <1>5, EndedRows
<1>7. \A kind, id : HasRow(kind, id)' <=> HasRow(kind, id) \/ Row(kind, id) = q \/ Row(kind, id) = r
  BY <1>6, RowIsThere DEF Adds
<1>8. \A d : StartId(d)' = StartId(d) /\ CallId(d)' = CallId(d)
  BY <1>4 DEF StartId, CallId
<1>9. \A d \in AllCalls : /\ Row("tool_call", StartId(d)) \in {q, r} => d = c
                          /\ Row("tool_call", CallId(d)) \in {q, r} => d = c
                          /\ Row("tool_call_output", CallId(d)) \in {q, r} => d = c
                          /\ Row("tool_call_output", <<"item", d>>) \notin {q, r}
  BY <1>5, IdFacts
<1>10. /\ q \in ToolRows /\ r \in ToolRows /\ q[2][2] \in called /\ r[2][2] \in called
  BY <1>5, IdFacts
<1>11. c \notin Asked
  BY <1>5, TurnAssumption DEF Asked
<1>12. Row("tool_call_output", CallId(c)) = r /\ Row("tool_call", CallId(c)) = q
  OBVIOUS
<1> HIDE DEF q, r
<1>13. TurnShape'
  BY <1>1, <1>3, <1>4, <1>6 DEF TurnShape, Shifted, Adds
<1>14. StreamFits'
  <2>1. ASSUME NEW e \in Events, EventFits(e), Follow(stream[1], e)
        PROVE  EventFits(e)'
    <3>1. e.calls \subseteq AllCalls
      BY DEF Events
    <3>2. e.type = "start" => \A d \in e.calls : ~HasRow("tool_call", StartId(d))'
      BY <1>5, <1>7, <1>8, <1>9, <2>1, <3>1 DEF EventFits
    <3>3. e.type = "end" => \A d \in e.calls : ~HasRow("tool_call_output", CallId(d))'
      BY <1>5, <1>7, <1>8, <1>9, <2>1, <3>1 DEF EventFits
    <3>4. QED
      BY <1>4, <2>1, <3>2, <3>3, Zenon DEF EventFits
  <2>2. QED
    BY <1>1, <1>3, <1>4, <2>1, StreamTaken
<1>15. RowsFit'
  <2>1. \A d \in AllCalls : /\ Row("tool_call_output", CallId(d)) \in {q, r} => Row("tool_call", CallId(d)) \in {q, r}
                            /\ Row("tool_call_output", <<"item", d>>) \notin {q, r}
    BY <1>9, <1>12
  <2>2. \A d \in Asked : Row("tool_call_output", CallId(d)) \notin {q, r} /\ Row("tool_call", CallId(d)) \notin {q, r}
    BY <1>9, <1>11 DEF AllCalls
  <2>3. Approvals \subseteq Asked
    BY DEF Asked
  <2>4. QED
    BY <1>1, <1>4, <1>6, <1>10, <2>1, <2>2, <2>3, RowsFitKept
<1>16. AnsweredOnce'
  BY <1>1, <1>4 DEF AnsweredOnce
<1>17. TextsKept'
  BY <1>1, <1>3, <1>4, TextsTaken DEF TurnShape
<1>18. CallsKept'
  <2>1. HasRow("tool_call_output", CallId(c))'
    BY <1>7, <1>8, <1>12
  <2>2. QED
    BY <1>1, <1>3, <1>4, <1>5, <1>7, <1>8, <2>1, CallsTaken
<1>19. QED
  BY <1>3, <1>4, <1>13, <1>14, <1>15, <1>16, <1>17, <1>18, LoopGoesOn DEF TurnInv

\* requires_action and custom_tool_use: what was not answered yet is to be.
LEMMA WaitedStep ==
  ASSUME TurnInv, Next1, NEW fresh, fresh \subseteq Head(stream).calls, Waited(fresh),
         Head(stream).calls \subseteq Asked, Head(stream).type \in {"requires", "use"},
         fresh \intersect answered = {},
         \A e \in Events : EventFits(e) /\ Follow(stream[1], e) => EventFits(e)'
  PROVE  TurnInv'
<1>1. TurnShape /\ StreamFits /\ RowsFit /\ AnsweredOnce /\ TextsKept /\ CallsKept
  BY DEF TurnInv
<1>2. turn = "loop" /\ Shifted /\ stream[1].type \in {"requires", "use"} /\ Head(stream) = stream[1]
  BY <1>1, ShiftedStream DEF Next1
<1>3. /\ UNCHANGED <<backend, remote, called, required, texts, turnDone, reply, failed, aborted, toolRows,
                     history, turnFaults, runs>>
      /\ todo' = fresh /\ answered' = answered \union Head(stream).calls /\ turn' = IF fresh = {} THEN "loop" ELSE "act"
  BY DEF Waited, remoteSide, Calls
<1>4. stream[1].calls \subseteq called
  <2>1. stream[1] \in ToSet(stream)
    BY <1>2 DEF Shifted, ToSet
  <2>2. QED
    BY <1>1, <2>1 DEF StreamFits, EventFits
<1>5. TurnShape'
  <2>1. todo' \subseteq answered' /\ answered' \subseteq called' \intersect Asked
    BY <1>1, <1>2, <1>3, <1>4 DEF TurnShape
  <2>2. turn' \in {"loop", "act"} /\ (turn' = "loop" => todo' = {})
    BY <1>3
  <2>3. stream' \in Seq(Events)
    BY <1>2 DEF Shifted
  <2>4. QED
    BY <1>1, <1>3, <2>1, <2>2, <2>3 DEF TurnShape, Stages
<1>6. StreamFits'
  BY <1>1, <1>2, <1>3, StreamTaken
<1>7. RowsFit'
  BY <1>1, <1>3, RowsStay
<1>8. AnsweredOnce'
  <2> SUFFICES ASSUME NEW c \in Asked
               PROVE  runs'[c] <= 1 /\ (runs'[c] > 0 => c \in answered') /\ (c \in todo' => runs'[c] = 0)
    BY DEF AnsweredOnce
  <2>1. runs[c] \in Nat /\ runs[c] <= 1 /\ (runs[c] > 0 => c \in answered)
    BY <1>1 DEF AnsweredOnce, TurnShape
  <2>2. QED
    BY <1>3, <2>1
<1>9. TextsKept'
  BY <1>1, <1>2, <1>3, TextsTaken DEF TurnShape
<1>10. CallsKept'
  BY <1>1, <1>2, <1>3, CallsTaken DEF HasRow, CallId
<1>11. QED
  BY <1>2, <1>3, <1>5, <1>6, <1>7, <1>8, <1>9, <1>10, LoopGoesOn DEF TurnInv

LEMMA RequiredStep ==
  ASSUME TurnInv, TakeRequired
  PROVE  TurnInv'
<1>1. TurnShape /\ StreamFits
  BY DEF TurnInv
<1>2. Next1 /\ Head(stream).type = "requires" /\ Waited(NewlyRequired(Calls))
  BY DEF TakeRequired, Take
<1>3. Shifted /\ Head(stream) = stream[1] /\ turn = "loop"
  BY <1>1, <1>2, ShiftedStream DEF Next1
<1>4. backend = "openai" /\ stream[1].calls \subseteq Asked
  <2>1. stream[1] \in ToSet(stream)
    BY <1>3 DEF Shifted, ToSet
  <2>2. QED
    BY <1>1, <1>2, <1>3, <2>1 DEF StreamFits, EventFits
<1>5. UNCHANGED <<backend, toolRows, called>>
  BY <1>2 DEF Waited, remoteSide
<1>6. ASSUME NEW e \in Events, EventFits(e)
      PROVE  EventFits(e)'
  BY <1>4, <1>5, <1>6 DEF EventFits, HasRow, StartId, CallId, Row
<1>7. /\ NewlyRequired(Calls) \subseteq Head(stream).calls /\ NewlyRequired(Calls) \intersect answered = {}
  BY DEF NewlyRequired, Calls
<1>8. QED
  BY <1>2, <1>3, <1>4, <1>6, <1>7, WaitedStep

LEMMA CustomToolStep ==
  ASSUME TurnInv, TakeCustomToolUse
  PROVE  TurnInv'
<1>1. TurnShape /\ StreamFits
  BY DEF TurnInv
<1>2. Next1 /\ Head(stream).type = "use" /\ Waited(Calls)
  BY DEF TakeCustomToolUse, Take
<1>3. Shifted /\ Head(stream) = stream[1] /\ turn = "loop"
  BY <1>1, <1>2, ShiftedStream DEF Next1
<1>4. EventFits(stream[1])
  <2>1. stream[1] \in ToSet(stream)
    BY <1>3 DEF Shifted, ToSet
  <2>2. QED
    BY <1>1, <2>1 DEF StreamFits
<1>5. PICK c : stream[1].calls = {c} /\ c \in Own /\ c \notin answered
  BY <1>2, <1>3, <1>4 DEF EventFits
<1>6. /\ \A e \in Events : Follow(stream[1], e) /\ e.type \in {"start", "use"} /\ EventFits(e) => c \notin e.calls
  BY <1>2, <1>3, <1>5, HeadOfCall
<1>7. UNCHANGED <<backend, toolRows, called>> /\ answered' = answered \union {c}
  BY <1>2, <1>3, <1>5 DEF Waited, remoteSide, Calls
<1>8. ASSUME NEW e \in Events, EventFits(e), Follow(stream[1], e)
      PROVE  EventFits(e)'
  BY <1>6, <1>7, <1>8 DEF EventFits, HasRow, StartId, CallId, Row
<1>9. Calls = Head(stream).calls /\ Calls \subseteq Asked /\ Calls \intersect answered = {}
  BY <1>3, <1>5 DEF Calls, Asked
<1>10. QED
  BY <1>2, <1>3, <1>8, <1>9, WaitedStep

-----------------------------------------------------------------------------
\* A call is answered.
LEMMA AnswerRows ==
  ASSUME TurnInv, NEW c \in Asked, Answer(c), AnswerFunction(c) \/ ApprovalAnswered(c) \/ AnswerCustomTool(c)
  PROVE  /\ Adds({Row("tool_call", CallId(c)), Row("tool_call_output", CallId(c))})
         /\ backend = "claude" \/ c \in Own \/ c \in Approvals
<1>1. TurnShape /\ RowsFit /\ AnsweredOnce
  BY DEF TurnInv
<1>2. runs[c] = 0 /\ c \in AllCalls
  BY <1>1 DEF Answer, AnsweredOnce, AllCalls
<1>3. ~HasRow("tool_call_output", CallId(c)) /\ (c \in Approvals => ~HasRow("tool_call", CallId(c)))
  BY <1>1, <1>2 DEF RowsFit
<1>4. CASE ApprovalAnswered(c)
  BY <1>1, <1>2, <1>3, <1>4, ApprovalRows DEF ApprovalAnswered
<1>5. CASE AnswerFunction(c)
  BY <1>1, <1>2, <1>3, <1>5, EndedRows DEF AnswerFunction
<1>6. CASE AnswerCustomTool(c)
  BY <1>1, <1>2, <1>3, <1>6, EndedRows DEF AnswerCustomTool
<1>7. QED
  BY <1>4, <1>5, <1>6 DEF Asked

LEMMA AnswerStep ==
  ASSUME TurnInv, NEW c \in Asked, AnswerFunction(c) \/ ApprovalAnswered(c) \/ AnswerCustomTool(c)
  PROVE  TurnInv'
<1>1. TurnShape /\ StreamFits /\ RowsFit /\ AnsweredOnce /\ TextsKept /\ CallsKept
  BY DEF TurnInv
<1>2. Answer(c)
  BY DEF AnswerFunction, ApprovalAnswered, AnswerCustomTool
<1>3. /\ turn = "act" /\ c \in todo /\ todo' = todo \ {c} /\ turn' = (IF todo' = {} THEN "loop" ELSE "act")
      /\ runs' = [runs EXCEPT ![c] = @ + 1] /\ required' = required \ {c}
      /\ UNCHANGED <<backend, remote, called, texts, answered, turnDone, reply, failed, aborted, history, turnFaults>>
  BY <1>2 DEF Answer
<1>4. c \in AllCalls /\ c \in answered /\ c \in called /\ runs[c] = 0 /\ Asked \subseteq AllCalls
  BY <1>1, <1>3 DEF TurnShape, AnsweredOnce, AllCalls
<1> DEFINE q == Row("tool_call", CallId(c))
           r == Row("tool_call_output", CallId(c))
<1>5. Adds({q, r})
  BY <1>2, AnswerRows
<1>6. \A kind, id : HasRow(kind, id)' <=> HasRow(kind, id) \/ Row(kind, id) = q \/ Row(kind, id) = r
  BY <1>5, RowIsThere DEF Adds
<1>7. \A d : StartId(d)' = StartId(d) /\ CallId(d)' = CallId(d)
  BY <1>3 DEF StartId, CallId
<1>8. \A d \in AllCalls : /\ Row("tool_call", StartId(d)) \in {q, r} => d = c /\ (c \in Own => backend # "openai")
                          /\ Row("tool_call", CallId(d)) \in {q, r} => d = c
                          /\ Row("tool_call_output", CallId(d)) \in {q, r} => d = c
                          /\ Row("tool_call_output", <<"item", d>>) \notin {q, r}
  BY <1>4, IdFacts
<1>9. q \in ToolRows /\ r \in ToolRows /\ q[2][2] \in called /\ r[2][2] \in called
  BY <1>4, IdFacts
<1>10. Row("tool_call_output", CallId(c)) = r /\ Row("tool_call", CallId(c)) = q
  OBVIOUS
<1> HIDE DEF q, r
<1>11. runs' \in [Asked -> Nat] /\ runs'[c] = 1 /\ \A d \in Asked : d # c => runs'[d] = runs[d]
  BY <1>1, <1>3, <1>4 DEF TurnShape
<1>12. \A e \in Events : EventFits(e) => EventFits(e)'
  <2> SUFFICES ASSUME NEW e \in Events, EventFits(e) PROVE EventFits(e)'
    OBVIOUS
  <2>1. e.calls \subseteq AllCalls
    BY DEF Events
  <2>2. e.type = "start" => \A d \in e.calls : ~HasRow("tool_call", StartId(d))'
    <3> SUFFICES ASSUME e.type = "start", NEW d \in e.calls PROVE ~HasRow("tool_call", StartId(d))'
      OBVIOUS
    <3>1. d \notin Approvals /\ ~HasRow("tool_call", StartId(d)) /\ (backend = "claude" => d \notin answered)
      BY DEF EventFits
    <3>2. Row("tool_call", StartId(d)) \notin {q, r}
      <4>1. backend \in {"openai", "claude"} /\ (c \in Own \/ c \in Approvals)
        BY <1>1 DEF TurnShape, Asked
      <4>2. QED
        BY <1>4, <1>8, <2>1, <3>1, <4>1
    <3>3. QED
      BY <1>6, <1>7, <3>1, <3>2
  <2>3. e.type = "end" => \A d \in e.calls : ~HasRow("tool_call_output", CallId(d))'
    <3> SUFFICES ASSUME e.type = "end", NEW d \in e.calls PROVE ~HasRow("tool_call_output", CallId(d))'
      OBVIOUS
    <3>1. d \in Hosted /\ ~HasRow("tool_call_output", CallId(d))
      BY DEF EventFits
    <3>2. d # c
      BY <3>1, TurnAssumption DEF Asked
    <3>3. QED
      BY <1>6, <1>7, <1>8, <2>1, <3>1, <3>2
  <2>4. QED
    BY <1>3, <2>2, <2>3, Zenon DEF EventFits
<1>13. PICK t \in Seq(Events) :
         /\ stream' = stream \o t /\ (t # <<>> => remote = "working")
         /\ \A i \in DOMAIN t : t[i].type = "requires" /\ t[i].calls = required' /\ backend = "openai"
  <2>1. Event("requires", required') \in Events /\ stream \in Seq(Events)
    BY <1>1, <1>3 DEF TurnShape, Event, Events, EventTypes
  <2>2. CASE stream' = stream
    <3>1. stream' = stream \o <<>> /\ <<>> \in Seq(Events) /\ DOMAIN <<>> = {}
      BY <2>1, <2>2
    <3>2. QED
      BY <3>1
  <2>3. CASE stream' # stream
    <3> DEFINE e == Event("requires", required')
    <3>1. backend = "openai" /\ remote = "working" /\ stream' = Append(stream, e)
      BY <1>2, <2>3 DEF Answer
    <3>2. e \in Events /\ e.type = "requires" /\ e.calls = required'
      BY <2>1 DEF Event
    <3> HIDE DEF e
    <3>3. stream' = stream \o <<e>> /\ <<e>> \in Seq(Events) /\ DOMAIN <<e>> = {1} /\ <<e>>[1] = e
      BY <2>1, <3>1, <3>2
    <3>4. QED
      BY <3>1, <3>2, <3>3
  <2>4. QED
    BY <2>2, <2>3
<1>14. TurnShape'
  <2>1. stream' \in Seq(Events)
    BY <1>1, <1>13 DEF TurnShape
  <2>2. QED
    BY <1>1, <1>3, <1>5, <1>11, <2>1 DEF TurnShape, Stages, Adds
<1>15. StreamFits'
  <2>1. CASE t = <<>>
    <3>1. stream' = stream
      BY <1>1, <1>13, <2>1 DEF TurnShape
    <3>2. \A e \in ToSet(stream') : e \in Events /\ EventFits(e)
      BY <1>1, <3>1 DEF TurnShape, StreamFits, ToSet
    <3>3. QED
      BY <1>1, <1>3, <1>12, <3>1, <3>2 DEF StreamFits, IdleFits
  <2>2. CASE t # <<>>
    <3>1. required' \subseteq called' /\ required' \subseteq Asked
      BY <1>14 DEF TurnShape
    <3>2. \A i \in DOMAIN t : EventFits(t[i])'
      BY <1>3, <1>13, <3>1 DEF EventFits
    <3>3. /\ \A i \in DOMAIN t : t[i].type # "idle"
          /\ \A i, j \in DOMAIN t : Follow(t[i], t[j])
          /\ \A e \in Events, j \in DOMAIN t : Follow(e, t[j])
      BY <1>13 DEF Follow
    <3>4. QED
      BY <1>1, <1>3, <1>12, <1>13, <2>2, <3>2, <3>3, StreamGrown
  <2>3. QED
    BY <2>1, <2>2
<1>16. RowsFit'
  <2>1. \A d \in AllCalls : /\ Row("tool_call_output", CallId(d)) \in {q, r} => Row("tool_call", CallId(d)) \in {q, r}
                            /\ Row("tool_call_output", <<"item", d>>) \notin {q, r}
    BY <1>8, <1>10
  <2>2. \A d \in Asked : /\ runs[d] > 0 \/ Row("tool_call_output", CallId(d)) \in {q, r} => runs'[d] > 0
                         /\ Row("tool_call", CallId(d)) \in {q, r} => runs'[d] > 0
    <3> SUFFICES ASSUME NEW d \in Asked, d # c
                 PROVE  /\ runs'[d] = runs[d] /\ Row("tool_call_output", CallId(d)) \notin {q, r}
                        /\ Row("tool_call", CallId(d)) \notin {q, r}
      BY <1>11
    <3>1. d \in AllCalls
      BY <1>4
    <3>2. QED
      BY <1>8, <1>11, <3>1
  <2>3. Approvals \subseteq Asked
    BY DEF Asked
  <2>4. QED
    BY <1>1, <1>3, <1>5, <1>9, <2>1, <2>2, <2>3, RowsFitKept
<1>17. AnsweredOnce'
  BY <1>1, <1>3, <1>4, <1>11 DEF AnsweredOnce
<1>18. TextsKept'
  <2>1. \A i \in DOMAIN t : t[i].type # "text"
    BY <1>13
  <2>2. 0 \in Nat /\ texts' = texts + 0
    BY <1>1, <1>3 DEF TurnShape
  <2>3. QED
    BY <1>1, <1>3, <1>13, <2>1, <2>2, TextsGrown
<1>19. CallsKept'
  <2>1. SUFFICES ASSUME ~aborted, NEW d \in called
                 PROVE  \/ d \in required' \/ HasRow("tool_call_output", CallId(d))'
                        \/ \E i \in DOMAIN stream' : stream'[i].type = "end" /\ stream'[i].calls = {d}
    BY <1>3 DEF CallsKept
  <2>2. HasRow("tool_call_output", CallId(c))'
    BY <1>6, <1>7, <1>10
  <2>3. HasRow("tool_call_output", CallId(d)) => HasRow("tool_call_output", CallId(d))'
    BY <1>6, <1>7
  <2>4. \A i \in DOMAIN stream : i \in DOMAIN stream' /\ stream'[i] = stream[i]
    BY <1>1, <1>13 DEF TurnShape
  <2>5. \/ d \in required \/ HasRow("tool_call_output", CallId(d))
        \/ \E i \in DOMAIN stream : stream[i].type = "end" /\ stream[i].calls = {d}
    BY <1>1, <2>1 DEF CallsKept
  <2>6. CASE d = c
    BY <2>2, <2>6
  <2>7. CASE d # c
    BY <1>3, <2>3, <2>4, <2>5, <2>7
  <2>8. QED
    BY <2>6, <2>7
<1>20. QED
  BY <1>3, <1>14, <1>15, <1>16, <1>17, <1>18, <1>19, LoopGoesOn DEF TurnInv

-----------------------------------------------------------------------------
\* A step that leaves the calls, the rows and the stream alone.
LEMMA AllStays ==
  ASSUME TurnInv, remote' = remote \/ remote = "idle",
         UNCHANGED <<backend, called, required, texts, stream, todo, answered, turnDone, reply, aborted, toolRows, runs>>
  PROVE  StreamFits' /\ RowsFit' /\ AnsweredOnce' /\ TextsKept' /\ CallsKept'
<1>1. TurnShape /\ StreamFits /\ RowsFit /\ AnsweredOnce /\ TextsKept /\ CallsKept
  BY DEF TurnInv
<1>2. \A e : EventFits(e) => EventFits(e)'
  BY FitsGrow
<1>3. StreamFits'
  BY <1>1, <1>2 DEF StreamFits, IdleFits
<1>4. RowsFit'
  BY <1>1, RowsStay
<1>5. AnsweredOnce'
  BY <1>1 DEF AnsweredOnce
<1>6. TextsKept'
  BY <1>1 DEF TextsKept, TextsCounted
<1>7. CallsKept'
  BY <1>1 DEF CallsKept, HasRow, CallId
<1>8. QED
  BY <1>3, <1>4, <1>5, <1>6, <1>7

LEMMA InputStep ==
  ASSUME TurnInv, StoreInput
  PROVE  TurnInv'
<1>1. TurnShape /\ HistoryFits
  BY DEF TurnInv
<1>2. /\ turn = "store" /\ turn' = "open" /\ history' = Append(history, Row("input", <<>>))
      /\ UNCHANGED <<backend, remote, called, required, texts, stream, todo, answered, turnDone, reply, failed,
                     aborted, toolRows, turnFaults, runs>>
  BY DEF StoreInput, remoteSide
<1>3. StreamFits' /\ RowsFit' /\ AnsweredOnce' /\ TextsKept' /\ CallsKept'
  BY <1>2, AllStays
<1>4. history' = <<Row("input", <<>>)>>
  BY <1>1, <1>2 DEF HistoryFits
<1>5. Row("input", <<>>) \in HistoryRows /\ Row("input", <<>>)[1] = "input"
  BY DEF Row, HistoryRows
<1>6. history' \in Seq(HistoryRows) /\ DOMAIN history' = {1} /\ history'[1][1] = "input"
  BY <1>4, <1>5
<1>7. TurnShape'
  BY <1>1, <1>2, <1>6 DEF TurnShape, Stages
<1>8. HistoryFits'
  <2>1. Row("input", <<>>)' = Row("input", <<>>)
    BY DEF Row
  <2>2. Whole(history')
    BY <1>6 DEF Whole
  <2>3. QED
    BY <1>2, <1>4, <2>1, <2>2 DEF HistoryFits, Whole
<1>9. HeardOut'
  BY <1>2 DEF HeardOut
<1>10. QED
  BY <1>3, <1>7, <1>8, <1>9 DEF TurnInv

LEMMA OpenStep ==
  ASSUME TurnInv, Opened
  PROVE  TurnInv'
<1>1. TurnShape
  BY DEF TurnInv
<1>2. /\ turn = "open" /\ turn' = "loop" /\ remote' = "working"
      /\ UNCHANGED <<backend, called, required, texts, stream, todo, answered, turnDone, reply, failed, aborted,
                     toolRows, history, turnFaults, runs>>
  BY DEF Opened
<1>3. StreamFits' /\ RowsFit' /\ AnsweredOnce' /\ TextsKept' /\ CallsKept'
  BY <1>1, <1>2, AllStays DEF TurnShape
<1>4. TurnShape'
  BY <1>1, <1>2 DEF TurnShape, Stages
<1>5. QED
  BY <1>2, <1>3, <1>4, LoopGoesOn DEF TurnInv

\* The user stops the turn: nothing is on its way any more.
LEMMA StopStep ==
  ASSUME TurnInv, StopTurn
  PROVE  TurnInv'
<1>1. TurnShape /\ RowsFit /\ AnsweredOnce /\ HistoryFits
  BY DEF TurnInv
<1>2. /\ turn \in {"loop", "act"} /\ aborted' = TRUE /\ stream' = <<>>
      /\ remote' = (IF remote = "working" THEN "cancelled" ELSE remote)
      /\ UNCHANGED <<backend, called, required, texts, turn, todo, answered, turnDone, reply, failed, toolRows,
                     history, turnFaults, runs>>
  BY DEF StopTurn
<1>3. TurnShape'
  BY <1>1, <1>2 DEF TurnShape, Stages
<1>4. DOMAIN stream' = {}
  BY <1>2
<1>5. StreamFits'
  BY <1>4 DEF StreamFits, ToSet
<1>6. RowsFit'
  BY <1>1, <1>2, RowsStay
<1>7. AnsweredOnce'
  BY <1>1, <1>2 DEF AnsweredOnce
<1>8. HistoryFits' /\ HeardOut'
  BY <1>2, LoopGoesOn
<1>9. TextsKept' /\ CallsKept'
  BY <1>2 DEF TextsKept, CallsKept
<1>10. QED
  BY <1>3, <1>5, <1>6, <1>7, <1>8, <1>9 DEF TurnInv

\* The loop is left because it was stopped or because the stream broke.
LEMMA LeftStep ==
  ASSUME TurnInv, StreamEnds \/ StreamBreaks
  PROVE  TurnInv'
<1>1. TurnShape /\ HistoryFits
  BY DEF TurnInv
<1>2. /\ turn \in {"loop", "act"} /\ turn' = "rows" /\ failed' \in BOOLEAN /\ turnFaults' \in Nat
      /\ aborted \/ turnFaults' > 0
      /\ UNCHANGED <<backend, remote, called, required, texts, stream, todo, answered, turnDone, reply,
                     aborted, toolRows, history, runs>>
  <2>1. CASE StreamEnds
    BY <1>1, <2>1 DEF StreamEnds, TurnShape, remoteSide
  <2>2. CASE StreamBreaks
    <3>1. turnFaults' = turnFaults + 1 /\ turnFaults \in Nat
      BY <1>1, <2>2 DEF StreamBreaks, TurnShape
    <3>2. QED
      BY <2>2, <3>1 DEF StreamBreaks, remoteSide
  <2>3. QED
    BY <2>1, <2>2
<1>3. StreamFits' /\ RowsFit' /\ AnsweredOnce' /\ TextsKept' /\ CallsKept'
  BY <1>2, AllStays
<1>4. TurnShape'
  BY <1>1, <1>2 DEF TurnShape, Stages
<1>5. HistoryFits'
  BY <1>1, <1>2 DEF HistoryFits, Whole, Row
<1>6. HeardOut'
  BY <1>2 DEF HeardOut
<1>7. QED
  BY <1>3, <1>4, <1>5, <1>6 DEF TurnInv

-----------------------------------------------------------------------------
\* The history: the message, the calls of pairs, their outputs.
LEMMA WholeHistory ==
  ASSUME NEW a \in Seq(ToolRows), NEW b \in Seq(ToolRows), IsInjective(a), IsInjective(b),
         \A r \in ToSet(a) : r[1] = "tool_call" /\ Row("tool_call_output", r[2]) \in ToSet(b),
         \A r \in ToSet(b) : r[1] = "tool_call_output",
         NEW t \in Seq(HistoryRows), DOMAIN t = {1}, t[1][1] = "input"
  PROVE  LET h == t \o (a \o b) IN
         Whole(h) /\ h \in Seq(HistoryRows) /\ \A i \in DOMAIN h : h[i][1] # "reply"
<1> DEFINE n == Len(a)
           m == Len(b)
<1>0. PICK h : h = t \o (a \o b)
  OBVIOUS
<1>1. ToolRows \subseteq HistoryRows
  BY DEF HistoryRows, ToolRows
<1>2. /\ n \in Nat /\ m \in Nat /\ DOMAIN a = 1 .. n /\ DOMAIN b = 1 .. m
      /\ a \o b \in Seq(ToolRows) /\ Len(a \o b) = n + m
      /\ \A i \in 1 .. n : (a \o b)[i] = a[i]
      /\ \A i \in 1 .. m : (a \o b)[n + i] = b[i]
  OBVIOUS
<1>3. /\ h \in Seq(HistoryRows) /\ Len(h) = n + m + 1 /\ DOMAIN h = 1 .. n + m + 1 /\ h[1] = t[1]
      /\ \A i \in 1 .. n + m : h[i + 1] = (a \o b)[i]
  <2>1. PICK s, k, l : s = a \o b /\ k = Len(t) /\ l = Len(s)
    OBVIOUS
  <2>2. s \in Seq(HistoryRows) /\ l = n + m
    BY <1>1, <1>2, <2>1
  <2>3. /\ k \in Nat /\ l \in Nat /\ DOMAIN t = 1 .. k
        /\ t \o s \in Seq(HistoryRows) /\ Len(t \o s) = k + l /\ DOMAIN (t \o s) = 1 .. k + l
        /\ \A i \in 1 .. k : (t \o s)[i] = t[i]
        /\ \A i \in 1 .. l, j \in Nat : j = k + i => (t \o s)[j] = s[i]
    <3>1. /\ Len(t) \in Nat /\ Len(s) \in Nat /\ DOMAIN t = 1 .. Len(t)
          /\ t \o s \in Seq(HistoryRows) /\ Len(t \o s) = Len(t) + Len(s)
      <4>1. t \o s \in Seq(HistoryRows)
        BY <2>2, JoinedPlaces
      <4>2. Len(t \o s) = Len(t) + Len(s)
        BY <2>2, JoinedPlaces
      <4>3. DOMAIN t = 1 .. Len(t) /\ Len(t) \in Nat /\ Len(s) \in Nat
        BY <2>2, JoinedPlaces
      <4>4. QED
        BY <4>1, <4>2, <4>3
    <3>2. DOMAIN (t \o s) = 1 .. Len(t) + Len(s) /\ \A i \in 1 .. Len(t) : (t \o s)[i] = t[i]
      BY <2>2, JoinedPlaces
    <3>3. \A i \in 1 .. Len(s), j \in Nat : j = Len(t) + i => (t \o s)[j] = s[i]
      BY <2>2, JoinedPlaces
    <3>4. QED
      BY <2>1, <3>1, <3>2, <3>3
  <2>4. k = 1
    <3>1. 1 .. k = {1}
      BY <2>3, Zenon
    <3>2. 1 \in 1 .. k /\ k \in Nat
      BY <2>3, <3>1, Zenon
    <3>3. k \in 1 .. k
      BY <3>2
    <3>4. QED
      BY <3>1, <3>3, Zenon
  <2>5. h = t \o s
    BY <1>0, <2>1
  <2> HIDE DEF n, m
  <2>6. \A i \in 1 .. l : h[i + 1] = s[i]
    <3> SUFFICES ASSUME NEW i \in 1 .. l PROVE h[i + 1] = s[i]
      OBVIOUS
    <3>1. i + 1 \in Nat /\ i + 1 = k + i
      BY <2>3, <2>4
    <3>2. QED
      BY <2>3, <2>5, <3>1, Zenon
  <2>7. h \in Seq(HistoryRows) /\ Len(h) = k + l /\ DOMAIN h = 1 .. k + l /\ h[1] = t[1]
    <3>1. 1 \in 1 .. k
      BY <2>4
    <3>2. QED
      BY <2>3, <2>5, <3>1, Zenon
  <2>8. k + l = n + m + 1
    BY <1>2, <2>2, <2>4
  <2>9. QED
    BY <2>1, <2>2, <2>6, <2>7, <2>8, Zenon
<1>4. \A i \in 1 .. n : h[i + 1] = a[i]
  BY <1>2, <1>3
<1>5. \A i \in 1 .. m : h[n + i + 1] = b[i]
  <2> SUFFICES ASSUME NEW i \in 1 .. m PROVE h[n + i + 1] = b[i]
    OBVIOUS
  <2>1. n + i \in 1 .. n + m
    BY <1>2
  <2>2. h[(n + i) + 1] = (a \o b)[n + i]
    BY <1>3, <2>1
  <2>3. QED
    BY <1>2, <2>2
<1>6. \A i \in 1 .. n : a[i][1] = "tool_call" /\ \E k \in 1 .. m : b[k] = Row("tool_call_output", a[i][2])
  <2> SUFFICES ASSUME NEW i \in 1 .. n
               PROVE  a[i][1] = "tool_call" /\ \E k \in 1 .. m : b[k] = Row("tool_call_output", a[i][2])
    OBVIOUS
  <2>1. a[i] \in ToSet(a)
    BY <1>2, Zenon DEF ToSet
  <2>2. a[i][1] = "tool_call" /\ Row("tool_call_output", a[i][2]) \in ToSet(b)
    BY <2>1
  <2>3. PICK k \in DOMAIN b : b[k] = Row("tool_call_output", a[i][2])
    BY <2>2, Zenon DEF ToSet
  <2>4. QED
    BY <1>2, <2>2, <2>3
<1>7. \A i \in 1 .. m : b[i][1] = "tool_call_output"
  BY <1>2 DEF ToSet
<1>8. \A i \in 1 .. n, j \in 1 .. n : i # j => a[i] # a[j]
  BY <1>2, Zenon DEF IsInjective
<1>9. \A i \in 1 .. m, j \in 1 .. m : i # j => b[i] # b[j]
  BY <1>2, Zenon DEF IsInjective
<1> HIDE DEF n, m
\* A place in the history is that of the message, of a call or of an output.
<1>10. \A i \in 1 .. n + m + 1 :
         \/ i = 1 /\ h[i][1] = "input"
         \/ \E x \in 1 .. n : i = x + 1 /\ h[i] = a[x] /\ h[i][1] = "tool_call"
         \/ \E y \in 1 .. m : i = n + y + 1 /\ h[i] = b[y] /\ h[i][1] = "tool_call_output"
  <2> SUFFICES ASSUME NEW i \in 1 .. n + m + 1
               PROVE  \/ i = 1 /\ h[i][1] = "input"
                      \/ \E x \in 1 .. n : i = x + 1 /\ h[i] = a[x] /\ h[i][1] = "tool_call"
                      \/ \E y \in 1 .. m : i = n + y + 1 /\ h[i] = b[y] /\ h[i][1] = "tool_call_output"
    OBVIOUS
  <2>1. CASE i = 1
    BY <1>1, <1>3, <2>1
  <2>2. CASE i # 1 /\ i <= n + 1
    <3>1. i - 1 \in 1 .. n /\ i = (i - 1) + 1
      BY <1>2, <2>2
    <3>2. h[i] = a[i - 1] /\ a[i - 1][1] = "tool_call"
      BY <1>4, <1>6, <3>1
    <3>3. QED
      BY <3>1, <3>2
  <2>3. CASE i > n + 1
    <3>1. i - n - 1 \in 1 .. m /\ i = n + (i - n - 1) + 1
      BY <1>2, <2>3
    <3>2. h[i] = b[i - n - 1] /\ b[i - n - 1][1] = "tool_call_output"
      BY <1>5, <1>7, <3>1
    <3>3. QED
      BY <3>1, <3>2
  <2>4. QED
    BY <1>2, <2>1, <2>2, <2>3
<1>11. ASSUME NEW i \in DOMAIN h, NEW j \in DOMAIN h
       PROVE  /\ i # j => h[i] # h[j]
              /\ h[i][1] = "tool_call" => \E k \in i + 1 .. Len(h) : h[k] = Row("tool_call_output", h[i][2])
              /\ h[i][1] = "tool_call_output" /\ h[j][1] = "tool_call" => j < i
  <2>1. i \in 1 .. n + m + 1 /\ j \in 1 .. n + m + 1
    BY <1>3
  <2>2. ASSUME i # j, h[i] = h[j]
        PROVE  FALSE
    <3>1. CASE i = 1
      <4>1. j # 1
        BY <2>2, <3>1
      <4>2. h[j][1] # "input"
        BY <1>10, <2>1, <4>1
      <4>3. h[i][1] = "input"
        BY <1>3, <3>1
      <4>4. QED
        BY <2>2, <4>2, <4>3
    <3>2. ASSUME NEW x \in 1 .. n, i = x + 1, h[i] = a[x], h[i][1] = "tool_call"
          PROVE  FALSE
      <4>1. PICK y \in 1 .. n : j = y + 1 /\ h[j] = a[y]
        BY <1>10, <2>1, <2>2, <3>2
      <4>2. QED
        BY <1>8, <2>2, <3>2, <4>1
    <3>3. ASSUME NEW x \in 1 .. m, i = n + x + 1, h[i] = b[x], h[i][1] = "tool_call_output"
          PROVE  FALSE
      <4>1. PICK y \in 1 .. m : j = n + y + 1 /\ h[j] = b[y]
        BY <1>10, <2>1, <2>2, <3>3
      <4>2. QED
        BY <1>9, <2>2, <3>3, <4>1
    <3>4. QED
      BY <1>10, <2>1, <3>1, <3>2, <3>3
  <2>3. ASSUME h[i][1] = "tool_call"
        PROVE  \E k \in i + 1 .. Len(h) : h[k] = Row("tool_call_output", h[i][2])
    <3>1. PICK x \in 1 .. n : i = x + 1 /\ h[i] = a[x]
      BY <1>10, <2>1, <2>3
    <3>2. PICK y \in 1 .. m : b[y] = Row("tool_call_output", a[x][2])
      BY <1>6
    <3>3. n + y + 1 \in i + 1 .. Len(h) /\ h[n + y + 1] = b[y]
      BY <1>2, <1>3, <1>5, <3>1
    <3>4. QED
      BY <3>1, <3>2, <3>3
  <2>4. ASSUME h[i][1] = "tool_call_output", h[j][1] = "tool_call"
        PROVE  j < i
    <3>1. PICK y \in 1 .. m : i = n + y + 1
      BY <1>10, <2>1, <2>4
    <3>2. PICK x \in 1 .. n : j = x + 1
      BY <1>10, <2>1, <2>4
    <3>3. QED
      BY <1>2, <3>1, <3>2
  <2>5. QED
    BY <2>2, <2>3, <2>4
<1>12. \A i \in DOMAIN h : h[i][1] # "reply"
  BY <1>3, <1>10
<1>13. Whole(h)
  BY <1>3, <1>11, <1>12 DEF Whole
<1>14. QED
  BY <1>0, <1>3, <1>12, <1>13

\* The rows that are stored are whole pairs.
LEMMA StoredRows ==
  ASSUME TurnInv
  PROVE  \E a, b \in Seq(ToolRows) :
           /\ Ordered = a \o b /\ IsInjective(a) /\ IsInjective(b)
           /\ \A r \in ToSet(a) : r[1] = "tool_call" /\ Row("tool_call_output", r[2]) \in ToSet(b)
           /\ \A r \in ToSet(b) : r[1] = "tool_call_output"
<1>1. toolRows \in Seq(ToolRows) /\ IsInjective(toolRows)
  BY DEF TurnInv, TurnShape, RowsFit
<1> DEFINE P == {r \in ToSet(toolRows) : r[1] = "tool_call_output" \/ HasRow("tool_call_output", r[2])}
           p == Only(toolRows, P)
           a == Only(p, OfKind("tool_call"))
           b == Only(p, OfKind("tool_call_output"))
<1>2. p \in Seq(ToolRows) /\ IsInjective(p) /\ ToSet(p) = ToSet(toolRows) \intersect P
  BY <1>1, OnlySet, Zenon
<1>3. p = Paired
  BY DEF Paired
<1>4. \A r \in P : r[1] = "tool_call_output" \/ Row("tool_call_output", r[2]) \in ToSet(toolRows)
  BY RowIsThere, Zenon
<1>5. \A r \in ToSet(toolRows) : r[1] = "tool_call_output" => r \in P
  OBVIOUS
<1> HIDE DEF P, p
<1>6. \A S : /\ Only(p, S) \in Seq(ToolRows) /\ IsInjective(Only(p, S)) /\ ToSet(Only(p, S)) = ToSet(p) \intersect S
  BY <1>2, OnlySet, Zenon
<1>7. /\ a \in Seq(ToolRows) /\ IsInjective(a) /\ ToSet(a) = ToSet(p) \intersect OfKind("tool_call")
      /\ b \in Seq(ToolRows) /\ IsInjective(b) /\ ToSet(b) = ToSet(p) \intersect OfKind("tool_call_output")
  BY <1>6
<1>8. Ordered = a \o b
  BY <1>3 DEF Ordered
<1> HIDE DEF a, b
<1>9. \A r \in ToSet(b) : r[1] = "tool_call_output"
  BY <1>7 DEF OfKind
<1>10. ASSUME NEW r \in ToSet(a)
       PROVE  r[1] = "tool_call" /\ Row("tool_call_output", r[2]) \in ToSet(b)
  <2>1. r \in P /\ r[1] = "tool_call"
    BY <1>2, <1>7 DEF OfKind
  <2>2. PICK o : o = Row("tool_call_output", r[2])
    OBVIOUS
  <2>3. o[1] = "tool_call_output" /\ o \in ToSet(toolRows)
    BY <1>4, <2>1, <2>2 DEF Row
  <2>4. o \in ToSet(p) /\ o \in OfKind("tool_call_output")
    BY <1>2, <1>5, <2>3 DEF OfKind
  <2>5. QED
    BY <1>7, <2>1, <2>2, <2>4
<1>11. QED
  BY <1>7, <1>8, <1>9, <1>10

LEMMA StoreRowsStep ==
  ASSUME TurnInv, StoreRows
  PROVE  TurnInv'
<1>1. TurnShape /\ HistoryFits /\ HeardOut
  BY DEF TurnInv
<1>2. /\ turn = "rows" /\ turn' = "reply"
      /\ \/ history' = history \o Ordered /\ turnFaults' = turnFaults
         \/ turnFaults' = turnFaults + 1 /\ history' = history
      /\ UNCHANGED <<backend, remote, called, required, texts, stream, todo, answered, turnDone, reply, failed,
                     aborted, toolRows, runs>>
  BY DEF StoreRows, remoteSide
<1>3. StreamFits' /\ RowsFit' /\ AnsweredOnce' /\ TextsKept' /\ CallsKept'
  BY <1>2, AllStays
<1>4. history = <<Row("input", <<>>)>>
  BY <1>1, <1>2 DEF HistoryFits
<1>5. Whole(history') /\ history' \in Seq(HistoryRows) /\ \A i \in DOMAIN history' : history'[i][1] # "reply"
  <2>1. CASE history' = history
    <3>1. Row("input", <<>>)[1] = "input"
      BY DEF Row
    <3>2. DOMAIN history = {1} /\ history[1][1] = "input"
      BY <1>4, <3>1
    <3>3. QED
      BY <1>1, <2>1, <3>2 DEF HistoryFits, TurnShape
  <2>2. CASE history' = history \o Ordered
    <3>1. PICK a, b \in Seq(ToolRows) :
            /\ Ordered = a \o b /\ IsInjective(a) /\ IsInjective(b)
            /\ \A r \in ToSet(a) : r[1] = "tool_call" /\ Row("tool_call_output", r[2]) \in ToSet(b)
            /\ \A r \in ToSet(b) : r[1] = "tool_call_output"
      BY StoredRows
    <3>2. PICK e, s : e = Row("input", <<>>) /\ s = <<e>>
      OBVIOUS
    <3>3. e \in HistoryRows /\ e[1] = "input"
      BY <3>2 DEF Row, HistoryRows
    <3>4. s \in Seq(HistoryRows) /\ DOMAIN s = {1} /\ s[1] = e
      BY <3>2, <3>3
    <3>5. history' = s \o (a \o b)
      BY <1>4, <2>2, <3>1, <3>2
    <3>6. QED
      BY <3>1, <3>3, <3>4, <3>5, WholeHistory, Zenon
  <2>3. QED
    BY <1>2, <2>1, <2>2
<1>6. turnFaults' \in Nat /\ (turnFaults' = 0 => turnFaults = 0)
  BY <1>1, <1>2 DEF TurnShape
<1>7. TurnShape'
  BY <1>1, <1>2, <1>5, <1>6 DEF TurnShape, Stages
<1>8. HistoryFits'
  BY <1>2, <1>5 DEF HistoryFits, Whole, Row
<1>9. HeardOut'
  BY <1>1, <1>2, <1>6 DEF HeardOut
<1>10. QED
  BY <1>3, <1>7, <1>8, <1>9 DEF TurnInv

LEMMA ReplyStep ==
  ASSUME TurnInv, StoreReply
  PROVE  TurnInv'
<1>1. TurnShape /\ HistoryFits /\ HeardOut
  BY DEF TurnInv
<1>2. /\ turn = "reply" /\ turn' = "ended"
      /\ history' = history \/ history' = Append(history, Row("reply", <<>>))
      /\ UNCHANGED <<backend, remote, called, required, texts, stream, todo, answered, turnDone, reply, failed,
                     aborted, toolRows, turnFaults, runs>>
  BY DEF StoreReply, remoteSide
<1>3. StreamFits' /\ RowsFit' /\ AnsweredOnce' /\ TextsKept' /\ CallsKept'
  BY <1>2, AllStays
<1>4. Whole(history) /\ \A i \in DOMAIN history : history[i][1] # "reply"
  BY <1>1, <1>2 DEF HistoryFits
<1>5. Whole(history') /\ history' \in Seq(HistoryRows)
  <2>1. CASE history' = history
    BY <1>1, <1>4, <2>1 DEF TurnShape
  <2>2. CASE history' = Append(history, Row("reply", <<>>))
    <3>1. PICK n, h, e : n = Len(history) /\ h = Append(history, Row("reply", <<>>)) /\ e = Row("reply", <<>>)
      OBVIOUS
    <3>2. e \in HistoryRows /\ e[1] = "reply"
      BY <3>1 DEF Row, HistoryRows
    <3>3. /\ n \in Nat /\ DOMAIN history = 1 .. n /\ h \in Seq(HistoryRows) /\ Len(h) = n + 1 /\ DOMAIN h = 1 .. n + 1
          /\ \A i \in 1 .. n : h[i] = history[i]
          /\ h[n + 1] = e
      BY <1>1, <3>1, <3>2 DEF TurnShape
    <3>4. ASSUME NEW i \in 1 .. n + 1, NEW j \in 1 .. n + 1
          PROVE  /\ i # j => h[i] # h[j]
                 /\ h[i][1] = "reply" => i = n + 1
                 /\ h[i][1] = "tool_call" => \E k \in i + 1 .. n + 1 : h[k] = Row("tool_call_output", h[i][2])
                 /\ h[i][1] = "tool_call_output" /\ h[j][1] = "tool_call" => j < i
      <4>1. CASE i \in 1 .. n /\ j \in 1 .. n
        <5>1. h[i] = history[i] /\ h[j] = history[j] /\ h[i][1] # "reply"
          BY <1>4, <3>3, <4>1
        <5>2. h[i][1] = "tool_call" => \E k \in i + 1 .. n : history[k] = Row("tool_call_output", h[i][2])
          BY <1>4, <3>1, <3>3, <4>1, <5>1 DEF Whole
        <5>3. h[i][1] = "tool_call" => \E k \in i + 1 .. n + 1 : h[k] = Row("tool_call_output", h[i][2])
          BY <3>3, <4>1, <5>2
        <5>4. QED
          BY <1>4, <3>3, <4>1, <5>1, <5>3 DEF Whole
      <4>2. CASE i \in 1 .. n /\ j = n + 1
        <5>1. h[i] = history[i] /\ h[j] = e /\ h[i][1] # "reply"
          BY <1>4, <3>3, <4>2
        <5>2. h[i][1] = "tool_call" => \E k \in i + 1 .. n : history[k] = Row("tool_call_output", h[i][2])
          BY <1>4, <3>1, <3>3, <4>2, <5>1 DEF Whole
        <5>3. h[i][1] = "tool_call" => \E k \in i + 1 .. n + 1 : h[k] = Row("tool_call_output", h[i][2])
          BY <3>3, <4>2, <5>2
        <5>4. QED
          BY <3>2, <5>1, <5>3
      <4>3. CASE i = n + 1 /\ j \in 1 .. n
        <5>1. h[j] = history[j] /\ h[i] = e /\ h[j][1] # "reply"
          BY <1>4, <3>3, <4>3
        <5>2. QED
          BY <3>2, <4>3, <5>1
      <4>4. CASE i = n + 1 /\ j = n + 1
        BY <3>2, <3>3, <4>4
      <4>5. QED
        BY <3>3, <4>1, <4>2, <4>3, <4>4
    <3>5. Whole(h)
      BY <3>3, <3>4 DEF Whole
    <3>6. QED
      BY <2>2, <3>1, <3>3, <3>5
  <2>3. QED
    BY <1>2, <2>1, <2>2
<1>6. TurnShape'
  BY <1>1, <1>2, <1>5 DEF TurnShape, Stages
<1>7. HistoryFits'
  BY <1>2, <1>5 DEF HistoryFits, Whole, Row
<1>8. HeardOut'
  BY <1>1, <1>2 DEF HeardOut
<1>9. QED
  BY <1>3, <1>6, <1>7, <1>8 DEF TurnInv

-----------------------------------------------------------------------------
LEMMA TurnBegins ==
  ASSUME TurnInit
  PROVE  TurnInv
<1>1. /\ backend \in {"openai", "claude"} /\ remote = "idle" /\ called = {} /\ required = {} /\ turn = "store"
      /\ todo = {} /\ answered = {} /\ turnDone = FALSE /\ reply = 0 /\ failed = FALSE /\ aborted = FALSE
      /\ toolRows = <<>> /\ history = <<>> /\ texts = 0 /\ turnFaults = 0 /\ runs = [c \in Asked |-> 0]
  BY DEF TurnInit
<1>2. /\ stream \in Seq(Events) /\ Len(stream) \in {0, 1} /\ DOMAIN stream = 1 .. Len(stream)
      /\ \A i \in DOMAIN stream : i = 1 /\ stream[i].type = "idle" /\ stream[i].calls = {} /\ backend = "openai"
  <2>1. PICK e : e = [type |-> "idle", calls |-> {}]
    OBVIOUS
  <2>2. e \in Events /\ e.type = "idle" /\ e.calls = {}
    BY <2>1 DEF Events, EventTypes
  <2>3. (stream = <<>> \/ stream = <<e>>) /\ (stream # <<>> => backend = "openai")
    BY <2>1 DEF TurnInit
  <2>4. CASE stream = <<>>
    BY <2>4
  <2>5. CASE stream = <<e>>
    BY <2>2, <2>3, <2>5
  <2>6. QED
    BY <2>3, <2>4, <2>5
<1>3. TurnShape
  <2>1. runs \in [Asked -> Nat] /\ toolRows \in Seq(ToolRows) /\ history \in Seq(HistoryRows)
    BY <1>1
  <2>2. QED
    BY <1>1, <1>2, <2>1 DEF TurnShape, Stages
<1>4. StreamFits
  <2>1. \A e \in ToSet(stream) : EventFits(e)
    BY <1>2 DEF EventFits, ToSet
  <2>2. \A i \in DOMAIN stream : IdleFits(i)
    BY <1>1, <1>2 DEF IdleFits
  <2>3. \A i, j \in DOMAIN stream : ~(i < j)
    BY <1>2
  <2>4. QED
    BY <2>1, <2>2, <2>3 DEF StreamFits
<1>5. RowsFit
  BY <1>1 DEF RowsFit, IsInjective, HasRow
<1>6. AnsweredOnce
  BY <1>1 DEF AnsweredOnce
<1>7. TextsKept
  <2>1. PICK k : k = [i \in 0 .. Len(stream) |-> 0]
    OBVIOUS
  <2>2. Len(stream) \in Nat /\ \A i \in 1 .. Len(stream) : i \in 0 .. Len(stream) /\ i - 1 \in 0 .. Len(stream)
    BY <1>2
  <2>3. k \in [0 .. Len(stream) -> Nat] /\ k[0] = 0 /\ k[Len(stream)] = 0
    BY <2>1, <2>2
  <2>4. \A i \in 1 .. Len(stream) : k[i] = k[i - 1] + (IF stream[i].type = "text" THEN 1 ELSE 0)
    BY <1>2, <2>1, <2>2
  <2>5. TextsCounted(k)
    BY <1>1, <2>3, <2>4 DEF TextsCounted
  <2>6. QED
    BY <2>5 DEF TextsKept
<1>8. CallsKept
  BY <1>1 DEF CallsKept
<1>9. HeardOut /\ HistoryFits
  BY <1>1 DEF HeardOut, HistoryFits, Whole
<1>10. QED
  BY <1>3, <1>4, <1>5, <1>6, <1>7, <1>8, <1>9 DEF TurnInv

LEMMA TurnKeepsInv ==
  ASSUME TurnInv, [TurnNext]_turnVars
  PROVE  TurnInv'
<1>1. CASE UNCHANGED turnVars
  <2>1. UNCHANGED <<backend, remote, called, required, texts, stream, turn, todo, answered, turnDone, reply, failed,
                    aborted, toolRows, history, turnFaults, runs>>
    BY <1>1 DEF turnVars
  <2>2. StreamFits' /\ RowsFit' /\ AnsweredOnce' /\ TextsKept' /\ CallsKept'
    BY <2>1, AllStays
  <2>3. TurnShape'
    BY <2>1 DEF TurnInv, TurnShape
  <2>4. HistoryFits'
    BY <2>1 DEF TurnInv, HistoryFits, Whole, Row
  <2>5. HeardOut'
    BY <2>1 DEF TurnInv, HeardOut
  <2>6. QED
    BY <2>2, <2>3, <2>4, <2>5 DEF TurnInv
<1>2. CASE AgentWrites
  BY <1>2, WritesStep
<1>3. CASE AgentEnds
  BY <1>3, EndsStep
<1>4. ASSUME NEW c \in Asked \union Hosted, AgentCalls(c)
      PROVE  TurnInv'
  BY <1>4, CallsStep DEF AllCalls
<1>5. CASE StoreInput
  BY <1>5, InputStep
<1>6. CASE OpenWithOpenAI \/ OpenWithClaude
  BY <1>6, OpenStep DEF OpenWithOpenAI, OpenWithClaude
<1>7. CASE TakeText
  BY <1>7, TextStep
<1>8. CASE TakeStart \/ TakeToolUse
  BY <1>8, StartStep
<1>9. CASE TakeEnd \/ TakeToolResult
  BY <1>9, EndStep
<1>10. CASE TakeRequired
  BY <1>10, RequiredStep
<1>11. CASE TakeCustomToolUse
  BY <1>11, CustomToolStep
<1>12. ASSUME NEW c \in Asked, AnswerFunction(c) \/ ApprovalAnswered(c) \/ AnswerCustomTool(c)
       PROVE  TurnInv'
  BY <1>12, AnswerStep
<1>13. CASE TakeOutcome
  BY <1>13, OutcomeStep
<1>14. CASE TakeIdle \/ TakeStatusIdle
  BY <1>14, IdleStep
<1>15. CASE StopTurn
  BY <1>15, StopStep
<1>16. CASE StreamEnds \/ StreamBreaks
  BY <1>16, LeftStep
<1>17. CASE StoreRows
  BY <1>17, StoreRowsStep
<1>18. CASE StoreReply
  BY <1>18, ReplyStep
<1>19. QED
  BY <1>1, <1>2, <1>3, <1>4, <1>5, <1>6, <1>7, <1>8, <1>9, <1>10, <1>11, <1>12, <1>13, <1>14, <1>15, <1>16,
     <1>17, <1>18 DEF TurnNext

LEMMA HeardOutIsSaid ==
  ASSUME TurnInv
  PROVE  TurnsAreHeardOut
<1>1. \A c \in Asked : runs[c] <= 1
  BY DEF TurnInv, AnsweredOnce
<1>2. Whole(history)
  BY DEF TurnInv, HistoryFits
<1>3. ASSUME turn = "ended", ~aborted, turnFaults = 0
      PROVE  /\ remote \in {"done", "failed"} /\ reply = texts
             /\ \A c \in called : HasRow("tool_call_output", CallId(c))
  <2>1. stream = <<>> /\ remote \in {"done", "failed"}
    BY <1>3 DEF TurnInv, HeardOut
  <2>2. reply = texts
    <3>1. PICK k : TextsCounted(k)
      BY <1>3 DEF TurnInv, TextsKept
    <3>2. QED
      BY <2>1, <3>1 DEF TextsCounted
  <2>3. required = {} /\ DOMAIN stream = {}
    BY <2>1 DEF TurnInv, TurnShape
  <2>4. QED
    BY <1>3, <2>1, <2>2, <2>3 DEF TurnInv, CallsKept
<1>4. QED
  BY <1>1, <1>2, <1>3 DEF TurnsAreHeardOut

\* chatStream() runs a function or waits for an approval once, however often
\* OpenAI repeats it, stores whole pairs with the calls first and the reply last,
\* and a turn that is neither stopped nor broken ends with the provider's: all
\* its text is in the reply and every call has its output.
THEOREM NativeTurnsAreHeardOut == TurnSpec => []TurnsAreHeardOut
<1>1. TurnInit => TurnInv
  BY TurnBegins
<1>2. TurnInv /\ [TurnNext]_turnVars => TurnInv'
  BY TurnKeepsInv
<1>3. TurnInv => TurnsAreHeardOut
  BY HeardOutIsSaid
<1>4. QED
  BY <1>1, <1>2, <1>3, PTL DEF TurnSpec
=============================================================================
